---- MODULE Spec2Model ----
(***************************************************************************)
(* Model of dups' Backup entity (src/dups/backup.py) together with the     *)
(* rsync invoker it drives (src/dups/rsync.py) and the part of the target  *)
(* filesystem it reads and writes through utils.IO.                        *)
(*                                                                         *)
(* A caller t holds one Backup handle (handle[t]) and runs one method at a *)
(* time; pc[t] is the statement of backup.py / rsync.py it is about to     *)
(* execute.  Under Spec only one caller is inside a method at any time     *)
(* (the core is synchronous, spec section 5).                              *)
(***************************************************************************)
EXTENDS Integers, Sequences, FiniteSets, TLC

\* ---------------------------------------------------------------- bounds
MaxName == 2          \* how many distinct timestamps the clock passes through
NumThreads == 1       \* callers (each holding one Backup handle)
MaxRestores == 1      \* cap on the length of an .info 'restored_at' list
NumWorkers == 2       \* daemon threads serving requests at the same time
MaxSignal == 3        \* how far below 0 and beyond 255 exit codes are tried
MaxCount == 2         \* the greatest count a rotation tier is given
MaxInstances == 2     \* how many IO objects are constructed
MaxStored == 3        \* how many timestamps a root that is pruned may hold
MaxToken == 2         \* how many characters a str given to _escape has
MaxEdits == 1         \* how often the configuration file is rewritten

\* ------------------------------------------------------------- universe
\* A name is a Python str: the sequence of its characters.
Digits == { "0", "1", "2", "3", "4", "5", "6", "7", "8", "9" }

\* int(c) of a digit character
DigitVal ==
    ("0" :> 0) @@ ("1" :> 1) @@ ("2" :> 2) @@ ("3" :> 3) @@ ("4" :> 4) @@
    ("5" :> 5) @@ ("6" :> 6) @@ ("7" :> 7) @@ ("8" :> 8) @@ ("9" :> 9)

\* ord(c) of the characters names are spelled with
Ord ==
    (" " :> 32) @@ ("x" :> 120) @@ [ c \in Digits |-> 48 + DigitVal[c] ]

\* strftime(NAME_FORMAT) of midnight of the day-th of January 1990
Midnight(day) ==
    << "1", "9", "9", "0", "0", "1" >> \o day
       \o << "0", "0", "0", "0", "0", "0" >>

\* Backup names as produced by strftime(NAME_FORMAT), in clock order.
NameTable ==
    << Midnight(<< "0", "1" >>), Midnight(<< "0", "2" >>),
       Midnight(<< "0", "3" >>), Midnight(<< "0", "4" >>),
       Midnight(<< "0", "5" >>) >>

Names == { NameTable[i] : i \in 1..MaxName }

\* An entry of root_dir that is not named after a timestamp.
Strays == { << "x" >> }

Entries == Names \cup Strays

Threads == 1..NumThreads

NoName == << >>       \* Python None where a name / path is expected
NoCode == -1          \* Python None where an exit code is expected
NoProc == 0           \* Python None in rsync._proc

\* rsync.Status.EXIT_CODES (keys of the table)
EXIT_CODES == (0..6) \cup (10..14) \cup (20..25) \cup {30, 35, 255}

\* Return codes the transfer subprocess is let to end with: success, a
\* usage error, the two partial-transfer codes, and one code that is not in
\* the table.
ReturnCodes == {0, 1, 23, 24, 7}

\* Status.is_complete
is_complete(code) == code \in {0, 23, 24}

\* Status.is_complete counting every partial transfer, 25 (--max-delete
\* limit stopped deletions) included
Status_lenient(exit_code) ==
    IF exit_code \notin EXIT_CODES
      THEN [ done |-> TRUE, raised |-> "ValueError" ]
      ELSE [ done |-> TRUE, raised |-> "", exit_code |-> exit_code,
             is_complete |-> exit_code \in {0, 23, 24, 25} ]

\* Status(exit_code): the object with its exit_code and is_complete, or the
\* ValueError its constructor raises.
Status(exit_code) ==
    IF exit_code \notin EXIT_CODES
      THEN [ done |-> TRUE, raised |-> "ValueError" ]
      ELSE [ done |-> TRUE, raised |-> "", exit_code |-> exit_code,
             is_complete |-> is_complete(exit_code) ]

\* ------------------------------------------------------------ variables
VARIABLES
    now,          \* index into NameTable of datetime.now()
    fs,           \* root_dir: entry name -> what is on disk under it
    target,       \* TRUE once a restore has written into its target directory
    handle,       \* handle[t]: name of the Backup object caller t holds
    pc,           \* pc[t]: statement caller t executes next
    op,           \* op[t]: the method caller t is inside
    dry,          \* dry[t]: the dry_run argument of that method
    flags,        \* flags[t]: <<include_valid, include_invalid>> argument
    link,         \* link[t]: local link_dest of Backup.backup
    cmdDry,       \* cmdDry[t]: the command built by rsync.sync has --dry-run
    rc,           \* rc[t]: returncode of the subprocess started for t
    status,       \* status[t]: exit code of the Status held by t
    result,       \* result[t]: how t's last method call ended
    rs_dry_run,   \* rsync.get().dry_run
    rs_proc,      \* rsync.get()._proc  (NoProc, or the caller it was run for)
    rs_exit_code, \* rsync.get()._exit_code
    pre,          \* pre[t]: the disk as it was when t's method was entered
    root,         \* root_dir exists on the target
    arg,          \* the argument a function is applied to on its own
    out,          \* what that application returned or raised
    disk,         \* the tree the IO operations work on
    syscalls,     \* the os / SFTP / SSH calls the last IO operation made
    instances,    \* IO.__instances
    heap          \* the IO objects constructed so far

\* The state of the Backup entity, its callers and the rsync invoker.
coreVars == << now, fs, target, handle, pc, op, dry, flags, link, cmdDry, rc,
               status, result, rs_dry_run, rs_proc, rs_exit_code, pre >>

\* What the methods of Backup never write.
ioVars == << disk, syscalls, instances, heap >>

auxVars == << root, arg, out, ioVars >>

vars == << coreVars, auxVars >>

locals == << op, dry, flags, link, cmdDry, rc, status >>
rsyncVars == << rs_dry_run, rs_proc, rs_exit_code >>

\* ------------------------------------------------------------ .info file
\* datetime.now().strftime(PRETTY_FORMAT): the text is stored and never read
\* back by the program, so every time of day is written as the same token.
PrettyNow == "now"


\* A dict with no key.
EmptyDict == [ k \in {} |-> 0 ]

\* dict.get(key, default)
Get(d, key, default) == IF key \in DOMAIN d THEN d[key] ELSE default

\* d[key] = value
Put(d, key, value) == [ k \in (DOMAIN d) \cup {key} |->
                          IF k = key THEN value ELSE d[k] ]

\* The .info file: absent, or holding a JSON document (ok) or a truncated one.
NoInfoFile == [ exists |-> FALSE, ok |-> TRUE, d |-> EmptyDict ]

\* A directory entry that is not there.
Absent == [ exists |-> FALSE, data |-> FALSE, files |-> 0, info |-> NoInfoFile ]

\* Backup.exists
Exists(f, n) == f[n].exists

\* Backup.info
info(f, n) ==
    IF f[n].info.exists /\ f[n].info.ok THEN f[n].info.d ELSE EmptyDict

\* is_valid with validity defaulting to true when .info has no 'valid' key
is_valid_default_true(f, n) == Get(info(f, n), "valid", TRUE)

\* Backup.is_valid
is_valid(f, n) == Get(info(f, n), "valid", FALSE)

\* Backup.set_info: the filesystem after self.set_info(key, value)
set_info(f, n, key, value) ==
    [ f EXCEPT ![n].info =
        [ exists |-> TRUE, ok |-> TRUE, d |-> Put(info(f, n), key, value) ] ]

\* Backup.set_valid
set_valid(f, n, valid) == set_info(f, n, "valid", valid)

\* Backup.calculate_size
calculate_size(f, n) ==
    set_info(f, n, "bytes", IF f[n].data THEN f[n].files ELSE 0)

\* IO.makedirs(backup_data_dir)
makedirs(f, n) == [ f EXCEPT ![n].exists = TRUE, ![n].data = TRUE ]

\* rrmdir applied to backup_data_dir instead of backup_dir
rrmdir_data_only(f, n) == [ f EXCEPT ![n].data = FALSE, ![n].files = 0 ]

\* IO.rrmdir(backup_dir)
rrmdir(f, n) == [ f EXCEPT ![n] = Absent ]

\* IO.listdir(root_dir), where root_dir exists
listdir(f) == { e \in DOMAIN f : f[e].exists }

\* ------------------------------------------------------- name handling
Range(s) == { s[i] : i \in 1..Len(s) }

\* int(s) of a run of digits
RECURSIVE Num(_)
Num(s) ==
    IF s = << >> THEN 0
    ELSE 10 * Num(SubSeq(s, 1, Len(s) - 1)) + DigitVal[s[Len(s)]]

AllDigits(s) == \A i \in 1..Len(s) : s[i] \in Digits

\* calendar.monthrange(year, month)[1]
DaysIn(year, month) ==
    IF month = 2
      THEN (IF year % 4 = 0 /\ (year % 100 # 0 \/ year % 400 = 0)
              THEN 29 ELSE 28)
      ELSE IF month \in {4, 6, 9, 11} THEN 30 ELSE 31

\* The regular expression _strptime compiles NAME_FORMAT to:
\*   (?P<Y>\d\d\d\d)(?P<m>1[0-2]|0[1-9]|[1-9])
\*   (?P<d>3[0-1]|[1-2]\d|0[1-9]|[1-9]| [1-9])(?P<H>2[0-3]|[0-1]\d|\d)
\*   (?P<M>[0-5]\d|\d)(?P<S>6[0-1]|[0-5]\d|\d)
\* x is the text of one group, one or two characters wide.
Group_m(x) == AllDigits(x) /\ Num(x) \in (IF Len(x) = 2 THEN 1..12 ELSE 1..9)
Group_d(x) ==
    \/ AllDigits(x) /\ Num(x) \in (IF Len(x) = 2 THEN 1..31 ELSE 1..9)
    \/ Len(x) = 2 /\ x[1] = " " /\ x[2] \in Digits \ {"0"}
Group_H(x) == AllDigits(x) /\ Num(x) \in (IF Len(x) = 2 THEN 0..23 ELSE 0..9)
Group_M(x) == AllDigits(x) /\ Num(x) \in (IF Len(x) = 2 THEN 0..59 ELSE 0..9)
Group_S(x) == AllDigits(x) /\ Num(x) \in (IF Len(x) = 2 THEN 0..61 ELSE 0..9)

\* The text of group i (1 = m .. 5 = S) of s when the groups are w wide.
GroupText(s, w, i) ==
    LET from == 5 + (IF i > 1 THEN w[1] ELSE 0) + (IF i > 2 THEN w[2] ELSE 0)
                  + (IF i > 3 THEN w[3] ELSE 0) + (IF i > 4 THEN w[4] ELSE 0)
    IN  SubSeq(s, from, from + w[i] - 1)

MatchEnd(w) == 4 + w[1] + w[2] + w[3] + w[4] + w[5]

\* format_regex.match(s) succeeds with its groups w wide.
Matches(s, w) ==
    /\ Len(s) >= MatchEnd(w)
    /\ AllDigits(SubSeq(s, 1, 4))
    /\ Group_m(GroupText(s, w, 1))
    /\ Group_d(GroupText(s, w, 2))
    /\ Group_H(GroupText(s, w, 3))
    /\ Group_M(GroupText(s, w, 4))
    /\ Group_S(GroupText(s, w, 5))

\* The order in which the matcher tries widths: every group two characters
\* wide before one, an earlier group given up last.
Tried(w) ==
      16 * (2 - w[1]) + 8 * (2 - w[2]) + 4 * (2 - w[3])
    + 2 * (2 - w[4]) + (2 - w[5])

NoDate == [ ok |-> FALSE, Y |-> 0, m |-> 0, d |-> 0, H |-> 0, M |-> 0, S |-> 0 ]

\* datetime.datetime.strptime(s, NAME_FORMAT): the datetime, or NoDate where
\* it raises ValueError (no match, unconverted data remains, or a field the
\* datetime constructor refuses).
strptime_value(s) ==
    LET ws == { w \in [ 1..5 -> {1, 2} ] : Matches(s, w) } IN
    IF ws = {} THEN NoDate
    ELSE
      LET w == CHOOSE v \in ws : \A u \in ws : Tried(v) <= Tried(u)
          g(i) == GroupText(s, w, i)
          Y == Num(SubSeq(s, 1, 4))
          m == Num(g(1))
          d == IF g(2)[1] = " " THEN DigitVal[g(2)[2]] ELSE Num(g(2))
          S == Num(g(5))
      IN  IF MatchEnd(w) # Len(s) \/ Y < 1 \/ d > DaysIn(Y, m) \/ S > 59
            THEN NoDate
            ELSE [ ok |-> TRUE, Y |-> Y, m |-> m, d |-> d,
                   H |-> Num(g(3)), M |-> Num(g(4)), S |-> S ]

\* Names a directory listing may hold that were not written by Backup.new:
\* the year, then each field of NAME_FORMAT spelled short, padded, out of
\* range or with a blank, then nothing or one more character.
ListedNames ==
    { Y \o m \o d \o H \o M \o S \o rest :
        Y \in { << "1", "9", "9", "0" >>, << "0", "0", "0", "0" >> },
        m \in { << "1" >>, << "0", "1" >>, << "0", "2" >>, << "1", "1" >>,
                << "1", "3" >> },
        d \in { << "1" >>, << "0", "1" >>, << "3", "0" >>, << " ", "1" >> },
        H \in { << "1" >>, << "0", "0" >>, << "2", "4" >> },
        M \in { << "1" >>, << "0", "0" >> },
        S \in { << "1" >>, << "0", "0" >>, << "6", "0" >> },
        rest \in { << >>, << "0" >>, << "x" >> } }

\* str(n) of an integer
RECURSIVE Spell(_)
Spell(n) ==
    IF n < 0 THEN << "-" >> \o Spell(0 - n)
    ELSE IF n < 10 THEN << CHOOSE c \in Digits : DigitVal[c] = n >>
    ELSE Spell(n \div 10) \o Spell(n % 10)

\* n spelled with at least w digits (the %m, %d, %H, %M, %S of strftime)
RECURSIVE Pad(_, _)
Pad(n, w) == IF Len(Spell(n)) >= w THEN Spell(n) ELSE << "0" >> \o Pad(n, w - 1)

\* datetime.strftime(NAME_FORMAT); %Y is the year as the C library spells it
strftime(dt) ==
    Spell(dt.Y) \o Pad(dt.m, 2) \o Pad(dt.d, 2)
      \o Pad(dt.H, 2) \o Pad(dt.M, 2) \o Pad(dt.S, 2)

\* s[:-1] of a str
AllButLast(s) == IF s = << >> THEN << >> ELSE SubSeq(s, 1, Len(s) - 1)

\* A datetime of the years the rotated roots span.
At(Y, m, d, H) == [ ok |-> TRUE, Y |-> Y, m |-> m, d |-> d, H |-> H,
                    M |-> 0, S |-> 0 ]

\* Moments on days of three years, two months and three weeks, two of them
\* on one day.
GffsDates ==
    { At(1988, 6, 15, 0), At(1989, 12, 25, 0), At(1989, 12, 31, 0),
      At(1990, 1, 1, 0), At(1990, 1, 7, 0), At(1990, 1, 8, 0),
      At(1990, 1, 14, 0), At(1990, 1, 14, 12) }

\* The names Backup.new wrote at those moments, and one entry somebody else
\* put there: the name of 1990-01-01 00:00:00 short of its last digit, which
\* strptime reads as that very moment.
GffsNames ==
    { strftime(dt) : dt \in GffsDates }
      \cup { AllButLast(strftime(At(1990, 1, 1, 0))) }

\* Every name the model hands to strptime, each parsed once.
strptime_memo ==
    [ f \in Entries \cup ListedNames \cup Range(NameTable) \cup GffsNames |->
        strptime_value(f) ]

\* datetime.strptime(f, NAME_FORMAT) succeeds
strptime(f) == strptime_memo[f].ok

\* str.__lt__: a < b in the order of the characters' code points
RECURSIVE StrLess(_, _)
StrLess(a, b) ==
    IF b = << >> THEN FALSE
    ELSE IF a = << >> THEN TRUE
    ELSE IF a[1] # b[1] THEN Ord[a[1]] < Ord[b[1]]
    ELSE StrLess(Tail(a), Tail(b))

\* Position of a timestamp name in clock order
NameIndex(n) == CHOOSE i \in 1..Len(NameTable) : NameTable[i] = n

\* Backup.__lt__ : self.name < other.name
NameLess(a, b) == StrLess(a, b)

\* The order in which a directory listing is handed out.
RECURSIVE SeqOf(_)
SeqOf(S) ==
    IF S = {} THEN << >>
    ELSE LET e == CHOOSE x \in S : TRUE IN << e >> \o SeqOf(S \ {e})

\* ------------------------------------------------ all_backups / latest
\* The loop with 'include_valid or include_invalid' as the test that skips
\* the validity filter.
RECURSIVE all_backups_loop_either(_, _, _, _)
all_backups_loop_either(f, listing, include_valid, include_invalid) ==
    IF listing = << >> THEN << >>
    ELSE
      LET e    == Head(listing)
          rest == all_backups_loop_either(f, Tail(listing),
                                          include_valid, include_invalid)
      IN  IF ~strptime(e) THEN rest
          ELSE IF include_valid \/ include_invalid THEN << e >> \o rest
          ELSE (IF include_valid /\ is_valid(f, e) THEN << e >> ELSE << >>)
               \o (IF include_invalid /\ ~is_valid(f, e)
                     THEN << e >> ELSE << >>)
               \o rest

\* The loop of Backup.all_backups over the listing.
RECURSIVE all_backups_loop(_, _, _, _)
all_backups_loop(f, listing, include_valid, include_invalid) ==
    IF listing = << >> THEN << >>
    ELSE
      LET e    == Head(listing)
          rest == all_backups_loop(f, Tail(listing),
                                   include_valid, include_invalid)
      IN  IF ~strptime(e) THEN rest
          ELSE IF include_valid /\ include_invalid THEN << e >> \o rest
          ELSE (IF include_valid /\ is_valid(f, e) THEN << e >> ELSE << >>)
               \o (IF include_invalid /\ ~is_valid(f, e)
                     THEN << e >> ELSE << >>)
               \o rest

\* Backup.all_backups(io, root_dir, include_valid, include_invalid)
all_backups(f, include_valid, include_invalid) ==
    IF ~root
      THEN << >>      \* except FileNotFoundError: return []
      ELSE all_backups_loop(f, SeqOf(listdir(f)),
                            include_valid, include_invalid)

\* Backup.latest(io, root_dir, include_valid, include_invalid)
latest(f, include_valid, include_invalid) ==
    LET backups == all_backups(f, include_valid, include_invalid)
    IN  IF Len(backups) = 0 THEN NoName
        ELSE CHOOSE b \in Range(backups) :
               \A o \in Range(backups) : ~NameLess(b, o)

\* ------------------------------------------------------------- results
NoResult ==
    [ kind |-> "none", op |-> "", name |-> NoName, exc |-> "",
      code |-> NoCode, dry |-> FALSE, val |-> << >>, at |-> "" ]

Returned(o, n, code, d, val) ==
    [ kind |-> "returned", op |-> o, name |-> n, exc |-> "",
      code |-> code, dry |-> d, val |-> val, at |-> "" ]

Raised(o, n, exc, d) ==
    [ kind |-> "raised", op |-> o, name |-> n, exc |-> exc,
      code |-> NoCode, dry |-> d, val |-> << >>, at |-> "" ]

Interrupted(o, n, d) ==
    [ kind |-> "interrupted", op |-> o, name |-> n, exc |-> "",
      code |-> NoCode, dry |-> d, val |-> << >>, at |-> "" ]

\* What a method call can change on disk.
Snapshot == [ fs |-> fs, target |-> target ]

NoSnapshot == [ fs |-> [ e \in Entries |-> Absent ], target |-> FALSE ]

\* ---------------------------------------------------------------- Init
\* A fresh process with callers T: no handle, nobody inside a method, the
\* rsync singleton with its class defaults.
Fresh(T) ==
    /\ handle = [ t \in T |-> NoName ]
    /\ pc = [ t \in T |-> "idle" ]
    /\ op = [ t \in T |-> "" ]
    /\ dry = [ t \in T |-> FALSE ]
    /\ flags = [ t \in T |-> << TRUE, FALSE >> ]
    /\ link = [ t \in T |-> NoName ]
    /\ cmdDry = [ t \in T |-> FALSE ]
    /\ rc = [ t \in T |-> NoCode ]
    /\ status = [ t \in T |-> NoCode ]
    /\ result = [ t \in T |-> NoResult ]
    /\ rs_dry_run = TRUE
    /\ rs_proc = NoProc
    /\ rs_exit_code = NoCode
    /\ pre = [ t \in T |-> NoSnapshot ]

\* No function is being applied on its own.
NoOut == [ done |-> FALSE ]

NoArg == [ fn |-> "" ]

\* A path is a Python str, too.
Slash == << "/" >>

\* The paths below '/' the tree is made of.
DiskNodes ==
    { << "/", "a" >>, << "/", "a", "/", "b" >>, << "/", "b" >> }

\* Nothing at a path.
NoNode == [ kind |-> "none", to |-> NoName ]

\* No IO operation was called and no IO object constructed: an empty tree,
\* an empty IO.__instances.
IOAtRest ==
    /\ disk = [ p \in DiskNodes |-> NoNode ]
    /\ syscalls = << >>
    /\ instances = EmptyDict
    /\ heap = << >>

NoCall == arg = NoArg /\ out = NoOut /\ IOAtRest

\* An entry of root_dir with nothing in it.
Bare == [ exists |-> TRUE, data |-> FALSE, files |-> 0, info |-> NoInfoFile ]

\* A target root that holds no backup yet (only the stray entry), and a
\* fresh process.
Init ==
    /\ now = 1
    /\ fs = [ e \in Entries |-> IF e \in Strays THEN Bare ELSE Absent ]
    /\ target = FALSE
    /\ Fresh(Threads)
    /\ root = TRUE
    /\ NoCall

\* Caller t is the only one inside a method.
Alone(t) == \A u \in Threads \ {t} : pc[u] = "idle"

\* t leaves the method it is in with result r; the result remembers the
\* statement at which the method was left.
Leave(t, r) ==
    /\ pc' = [ pc EXCEPT ![t] = "done" ]
    /\ result' = [ result EXCEPT ![t] = [ r EXCEPT !.at = pc[t] ] ]

\* t enters method o.
Enter(t, o, first) ==
    /\ pc[t] = "idle"
    /\ Alone(t)
    /\ pc' = [ pc EXCEPT ![t] = first ]
    /\ op' = [ op EXCEPT ![t] = o ]
    /\ result' = result
    /\ pre' = [ pre EXCEPT ![t] = Snapshot ]

\* The caller has taken the outcome of the method (return value or
\* exception); the frame of the call is gone.
Resume(t) ==
    /\ pc[t] = "done"
    /\ pc' = [ pc EXCEPT ![t] = "idle" ]
    /\ result' = [ result EXCEPT ![t] = NoResult ]
    /\ op' = [ op EXCEPT ![t] = "" ]
    /\ dry' = [ dry EXCEPT ![t] = FALSE ]
    /\ flags' = [ flags EXCEPT ![t] = << TRUE, FALSE >> ]
    /\ link' = [ link EXCEPT ![t] = NoName ]
    /\ cmdDry' = [ cmdDry EXCEPT ![t] = FALSE ]
    /\ rc' = [ rc EXCEPT ![t] = NoCode ]
    /\ status' = [ status EXCEPT ![t] = NoCode ]
    /\ pre' = [ pre EXCEPT ![t] = NoSnapshot ]
    /\ UNCHANGED << auxVars, now, fs, target, handle, rsyncVars >>

\* --------------------------------------------------- clock and handles
\* Time passes: datetime.now() moves to the next second.
Tick ==
    /\ now < MaxName
    /\ now' = now + 1
    /\ pre' = pre
    /\ UNCHANGED << auxVars, fs, target, handle, pc, locals, result,
                    rsyncVars >>

\* Backup.new(io, root_dir)
New(t) ==
    /\ pc[t] = "idle"
    /\ Alone(t)
    /\ handle' = [ handle EXCEPT ![t] = NameTable[now] ]
    /\ pre' = pre
    /\ UNCHANGED << auxVars, now, fs, target, pc, locals, result, rsyncVars >>

\* Backup.from_name(io, name, root_dir)
FromName(t, name) ==
    /\ pc[t] = "idle"
    /\ Alone(t)
    /\ op' = [ op EXCEPT ![t] = "from_name" ]
    /\ pre' = [ pre EXCEPT ![t] = Snapshot ]
    /\ IF Exists(fs, name)
         THEN /\ handle' = [ handle EXCEPT ![t] = name ]
              /\ Leave(t, Returned("from_name", name, NoCode, FALSE, << >>))
         ELSE /\ handle' = handle
              /\ Leave(t, Raised("from_name", name,
                                 "BackupNotFoundException", FALSE))
    /\ UNCHANGED << auxVars, now, fs, target, dry, flags, link, cmdDry, rc, status,
                    rsyncVars >>

\* ------------------------------------------------------ Backup.backup
\* bak.backup(items, excludes, dry_run) is called.
BackupCall(t, d) ==
    /\ handle[t] # NoName
    /\ Enter(t, "backup", "b_check")
    /\ dry' = [ dry EXCEPT ![t] = d ]
    /\ UNCHANGED << auxVars, now, fs, target, handle, flags, link, cmdDry, rc, status,
                    rsyncVars >>

\* Backup.backup without its existence check
BackupCheck_unchecked(t) ==
    /\ pc[t] = "b_check"
    /\ pc' = [ pc EXCEPT ![t] = "b_get" ]
    /\ result' = result
    /\ pre' = pre
    /\ UNCHANGED << auxVars, now, fs, target, handle, locals, rsyncVars >>

\* if self.exists: raise BackupAlreadyExistsException
BackupCheck(t) ==
    /\ pc[t] = "b_check"
    /\ IF Exists(fs, handle[t])
         THEN Leave(t, Raised("backup", handle[t],
                              "BackupAlreadyExistsException", dry[t]))
         ELSE /\ pc' = [ pc EXCEPT ![t] = "b_get" ]
              /\ result' = result
    /\ pre' = pre
    /\ UNCHANGED << auxVars, now, fs, target, handle, locals, rsyncVars >>

\* Backup.backup creating the data directory under dry_run as well
BackupGetSync_always_mkdir(t) ==
    /\ pc[t] = "b_get"
    /\ rs_dry_run' = dry[t]
    /\ pc' = [ pc EXCEPT ![t] = "b_mkdir" ]
    /\ pre' = pre
    /\ UNCHANGED << auxVars, now, fs, target, handle, locals, result, rs_proc,
                    rs_exit_code >>

\* sync = rsync.rsync.get(); sync.dry_run = dry_run
BackupGetSync(t) ==
    /\ pc[t] = "b_get"
    /\ rs_dry_run' = dry[t]
    /\ pc' = [ pc EXCEPT ![t] = IF dry[t] THEN "b_latest" ELSE "b_mkdir" ]
    /\ pre' = pre
    /\ UNCHANGED << auxVars, now, fs, target, handle, locals, result, rs_proc,
                    rs_exit_code >>

\* Backup.backup that leaves the creation of the data directory out
BackupMakedirs_skipped(t) ==
    /\ pc[t] = "b_mkdir"
    /\ fs' = fs
    /\ pc' = [ pc EXCEPT ![t] = "b_started" ]
    /\ pre' = pre
    /\ UNCHANGED << auxVars, now, target, handle, locals, result, rsyncVars >>

\* if not dry_run: self._io.makedirs(self.backup_data_dir)
BackupMakedirs(t) ==
    /\ pc[t] = "b_mkdir"
    /\ fs' = makedirs(fs, handle[t])
    /\ pc' = [ pc EXCEPT ![t] = "b_started" ]
    /\ pre' = pre
    /\ UNCHANGED << auxVars, now, target, handle, locals, result, rsyncVars >>

\* self.set_info('backup_started_at', now)
BackupStarted(t) ==
    /\ pc[t] = "b_started"
    /\ fs' = set_info(fs, handle[t], "backup_started_at", PrettyNow)
    /\ pc' = [ pc EXCEPT ![t] = "b_latest" ]
    /\ pre' = pre
    /\ UNCHANGED << auxVars, now, target, handle, locals, result, rsyncVars >>

\* Backup.backup looking up the latest backup with include_invalid = True
BackupLatest_include_invalid(t) ==
    /\ pc[t] = "b_latest"
    /\ link' = [ link EXCEPT ![t] = latest(fs, TRUE, TRUE) ]
    /\ pc' = [ pc EXCEPT ![t] = "s_cmd" ]
    /\ pre' = pre
    /\ UNCHANGED << auxVars, now, fs, target, handle, op, dry, flags, cmdDry, rc,
                    status, result, rsyncVars >>

\* latest = self.latest(io, root, True, False); link_dest = its data dir
BackupLatest(t) ==
    /\ pc[t] = "b_latest"
    /\ link' = [ link EXCEPT ![t] = latest(fs, TRUE, FALSE) ]
    /\ pc' = [ pc EXCEPT ![t] = "s_cmd" ]
    /\ pre' = pre
    /\ UNCHANGED << auxVars, now, fs, target, handle, op, dry, flags, cmdDry, rc,
                    status, result, rsyncVars >>

\* if not dry_run: self.set_info('backup_finished_at', now)
BackupFinished(t) ==
    /\ pc[t] = "b_finished"
    /\ fs' = set_info(fs, handle[t], "backup_finished_at", PrettyNow)
    /\ pc' = [ pc EXCEPT ![t] = "b_size" ]
    /\ pre' = pre
    /\ UNCHANGED << auxVars, now, target, handle, locals, result, rsyncVars >>

\* if self.info.get('size', None) is None: self.calculate_size()
BackupSize(t) ==
    /\ pc[t] = "b_size"
    /\ fs' = IF "size" \notin DOMAIN info(fs, handle[t])
               THEN calculate_size(fs, handle[t])
               ELSE fs
    /\ pc' = [ pc EXCEPT ![t] = "b_valid" ]
    /\ pre' = pre
    /\ UNCHANGED << auxVars, now, target, handle, locals, result, rsyncVars >>

\* Backup.backup marking the backup valid whatever the exit code
BackupValid_any_code(t) ==
    /\ pc[t] = "b_valid"
    /\ fs' = set_valid(fs, handle[t], TRUE)
    /\ pc' = [ pc EXCEPT ![t] = "b_return" ]
    /\ pre' = pre
    /\ UNCHANGED << auxVars, now, target, handle, locals, result, rsyncVars >>

\* Backup.backup marking the backup valid when status.is_complete
BackupValid_is_complete(t) ==
    /\ pc[t] = "b_valid"
    /\ fs' = IF is_complete(status[t])
               THEN set_valid(fs, handle[t], TRUE) ELSE fs
    /\ pc' = [ pc EXCEPT ![t] = "b_return" ]
    /\ pre' = pre
    /\ UNCHANGED << auxVars, now, target, handle, locals, result, rsyncVars >>

\* if status.exit_code == 0: self.set_valid(True)
BackupValid(t) ==
    /\ pc[t] = "b_valid"
    /\ fs' = IF status[t] = 0 THEN set_valid(fs, handle[t], TRUE) ELSE fs
    /\ pc' = [ pc EXCEPT ![t] = "b_return" ]
    /\ pre' = pre
    /\ UNCHANGED << auxVars, now, target, handle, locals, result, rsyncVars >>

\* return status
BackupReturn(t) ==
    /\ pc[t] = "b_return"
    /\ Leave(t, Returned("backup", handle[t], status[t], dry[t], << >>))
    /\ pre' = pre
    /\ UNCHANGED << auxVars, now, fs, target, handle, locals, rsyncVars >>

\* ---------------------------------------------------------- rsync.sync
\* cmd = self.cmd ... cmd.append(target.resolved): the command is built,
\* with '--dry-run' iff self.dry_run is set at this moment.
SyncCmd(t) ==
    /\ pc[t] = "s_cmd"
    /\ cmdDry' = [ cmdDry EXCEPT ![t] = rs_dry_run ]
    /\ pc' = [ pc EXCEPT ![t] = "s_exec" ]
    /\ pre' = pre
    /\ UNCHANGED << auxVars, now, fs, target, handle, op, dry, flags, link, rc, status,
                    result, rsyncVars >>

\* _exec: if self._proc: raise RuntimeError; Popen(...); self._proc = proc;
\* self._exit_code = None
SyncExec(t) ==
    /\ pc[t] = "s_exec"
    /\ IF rs_proc # NoProc
         THEN /\ Leave(t, Raised(op[t], handle[t], "RuntimeError", dry[t]))
              /\ UNCHANGED << rs_proc, rs_exit_code, rc >>
         ELSE /\ rs_proc' = t
              /\ rs_exit_code' = NoCode
              /\ rc' = [ rc EXCEPT ![t] = NoCode ]
              /\ pc' = [ pc EXCEPT ![t] = "s_run" ]
              /\ result' = result
    /\ pre' = pre
    /\ UNCHANGED << auxVars, now, fs, target, handle, op, dry, flags, link, cmdDry,
                    status, rs_dry_run >>

\* What the running subprocess does between two output lines: nothing under
\* --dry-run; otherwise it may copy into the data directory of the backup
\* (Backup.backup) or from it to the restore target (Backup.restore).
Transfer(t) ==
    LET n == handle[t] IN
    IF cmdDry[t] \/ ~fs[n].data
      THEN UNCHANGED << fs, target >>
      ELSE IF op[t] = "backup"
        THEN /\ fs' \in { fs, [ fs EXCEPT ![n].files = 1 ] }
             /\ target' = target
        ELSE /\ target' \in { target, TRUE }
             /\ fs' = fs

\* for line in iter(proc.stdout.readline, ''): yield ... ; LOGGER.info(line)
SyncLine(t) ==
    /\ pc[t] = "s_run"
    /\ Transfer(t)
    /\ pre' = pre
    /\ UNCHANGED << auxVars, now, handle, pc, locals, result, rsyncVars >>

\* readline returns '': proc.communicate(); self._exit_code =
\* proc.returncode; proc.stdout.close(); proc.wait(); self._proc = None
SyncEnd(t) ==
    /\ pc[t] = "s_run"
    /\ \E code \in ReturnCodes :
         /\ rc' = [ rc EXCEPT ![t] = code ]
         /\ rs_exit_code' = code
    /\ rs_proc' = NoProc
    /\ pc' = [ pc EXCEPT ![t] = "s_status" ]
    /\ pre' = pre
    /\ UNCHANGED << auxVars, now, fs, target, handle, op, dry, flags, link, cmdDry,
                    status, result, rs_dry_run >>

\* return Status(self._exit_code): ValueError unless the code is known
SyncStatus(t) ==
    /\ pc[t] = "s_status"
    /\ IF rs_exit_code \notin EXIT_CODES
         THEN /\ Leave(t, Raised(op[t], handle[t], "ValueError", dry[t]))
              /\ status' = status
         ELSE /\ status' = [ status EXCEPT ![t] = rs_exit_code ]
              /\ pc' = [ pc EXCEPT ![t] =
                   IF op[t] = "backup"
                     THEN (IF dry[t] THEN "b_return" ELSE "b_finished")
                     ELSE (IF dry[t] THEN "r_return" ELSE "r_info") ]
              /\ result' = result
    /\ pre' = pre
    /\ UNCHANGED << auxVars, now, fs, target, handle, op, dry, flags, link, cmdDry,
                    rc, rsyncVars >>

\* ----------------------------------------------------- Backup.restore
\* bak.restore(target, items, dry_run) is called.
RestoreCall(t, d) ==
    /\ handle[t] # NoName
    /\ d \/ Len(Get(info(fs, handle[t]), "restored_at", << >>)) < MaxRestores
    /\ Enter(t, "restore", "r_check")
    /\ dry' = [ dry EXCEPT ![t] = d ]
    /\ UNCHANGED << auxVars, now, fs, target, handle, flags, link, cmdDry, rc, status,
                    rsyncVars >>

\* Backup.restore without its existence check
RestoreCheck_unchecked(t) ==
    /\ pc[t] = "r_check"
    /\ pc' = [ pc EXCEPT ![t] = "r_get" ]
    /\ result' = result
    /\ pre' = pre
    /\ UNCHANGED << auxVars, now, fs, target, handle, locals, rsyncVars >>

\* if not self.exists: raise BackupNotFoundException
RestoreCheck(t) ==
    /\ pc[t] = "r_check"
    /\ IF ~Exists(fs, handle[t])
         THEN Leave(t, Raised("restore", handle[t],
                              "BackupNotFoundException", dry[t]))
         ELSE /\ pc' = [ pc EXCEPT ![t] = "r_get" ]
              /\ result' = result
    /\ pre' = pre
    /\ UNCHANGED << auxVars, now, fs, target, handle, locals, rsyncVars >>

\* sync = rsync.rsync.get(); sync.dry_run = dry_run; the sources are built
\* and sync.sync(target, sources) is entered without a link_dest.
RestoreGetSync(t) ==
    /\ pc[t] = "r_get"
    /\ rs_dry_run' = dry[t]
    /\ link' = [ link EXCEPT ![t] = NoName ]
    /\ pc' = [ pc EXCEPT ![t] = "s_cmd" ]
    /\ pre' = pre
    /\ UNCHANGED << auxVars, now, fs, target, handle, op, dry, flags, cmdDry, rc,
                    status, result, rs_proc, rs_exit_code >>

\* Backup.restore writing an .info file that holds restored_at only
RestoreInfo_rewritten(t) ==
    /\ pc[t] = "r_info"
    /\ fs' = [ fs EXCEPT ![handle[t]].info =
                [ exists |-> TRUE, ok |-> TRUE,
                  d |-> Put(EmptyDict, "restored_at",
                            Append(Get(info(fs, handle[t]), "restored_at",
                                       << >>), PrettyNow)) ] ]
    /\ pc' = [ pc EXCEPT ![t] = "r_return" ]
    /\ pre' = pre
    /\ UNCHANGED << auxVars, now, target, handle, locals, result, rsyncVars >>

\* if not dry_run: restored_at = self.info.get('restored_at', []);
\* restored_at.append(now); self.set_info('restored_at', restored_at)
RestoreInfo(t) ==
    /\ pc[t] = "r_info"
    /\ fs' = set_info(fs, handle[t], "restored_at",
               Append(Get(info(fs, handle[t]), "restored_at", << >>), PrettyNow))
    /\ pc' = [ pc EXCEPT ![t] = "r_return" ]
    /\ pre' = pre
    /\ UNCHANGED << auxVars, now, target, handle, locals, result, rsyncVars >>

\* return status
RestoreReturn(t) ==
    /\ pc[t] = "r_return"
    /\ Leave(t, Returned("restore", handle[t], status[t], dry[t], << >>))
    /\ pre' = pre
    /\ UNCHANGED << auxVars, now, fs, target, handle, locals, rsyncVars >>

\* ------------------------------------------------------ Backup.remove
\* bak.remove() is called.
RemoveCall(t) ==
    /\ handle[t] # NoName
    /\ Enter(t, "remove", "rm_check")
    /\ UNCHANGED << auxVars, now, fs, target, handle, dry, flags, link, cmdDry, rc,
                    status, rsyncVars >>

\* if not self.exists: raise BackupNotFoundException
RemoveCheck(t) ==
    /\ pc[t] = "rm_check"
    /\ IF ~Exists(fs, handle[t])
         THEN Leave(t, Raised("remove", handle[t],
                              "BackupNotFoundException", FALSE))
         ELSE /\ pc' = [ pc EXCEPT ![t] = "rm_rrmdir" ]
              /\ result' = result
    /\ pre' = pre
    /\ UNCHANGED << auxVars, now, fs, target, handle, locals, rsyncVars >>

\* self._io.rrmdir(self.backup_dir)
RemoveRrmdir(t) ==
    /\ pc[t] = "rm_rrmdir"
    /\ fs' = rrmdir(fs, handle[t])
    /\ Leave(t, Returned("remove", handle[t], NoCode, FALSE, << >>))
    /\ pre' = pre
    /\ UNCHANGED << auxVars, now, target, handle, locals, rsyncVars >>

\* ------------------------------------------------- Backup.all_backups
\* Backup.all_backups(io, root_dir, include_valid, include_invalid) is called.
AllBackupsCall(t, include_valid, include_invalid) ==
    /\ Enter(t, "all_backups", "ab_run")
    /\ flags' = [ flags EXCEPT ![t] = << include_valid, include_invalid >> ]
    /\ UNCHANGED << auxVars, now, fs, target, handle, dry, link, cmdDry, rc, status,
                    rsyncVars >>

\* The body of all_backups runs and returns its list.
AllBackupsRun(t) ==
    /\ pc[t] = "ab_run"
    /\ Leave(t, Returned("all_backups", NoName, NoCode, FALSE,
                         all_backups(fs, flags[t][1], flags[t][2])))
    /\ pre' = pre
    /\ UNCHANGED << auxVars, now, fs, target, handle, locals, rsyncVars >>

\* ------------------------------------------------------- interruption
\* Statements of Backup.backup that are about to rewrite the .info file.
InfoWriters == { "b_started", "b_finished", "b_size", "b_valid" }

\* The .info file as open(info_path, 'w') leaves it when nothing is written.
Truncated(f, n) ==
    [ f EXCEPT ![n].info = [ exists |-> TRUE, ok |-> FALSE, d |-> EmptyDict ] ]

\* Backup.backup is interrupted (KeyboardInterrupt, an I/O error) at the
\* statement it is at and the exception leaves the method.  Nothing is
\* cleaned up: the rsync object keeps its _proc, and an .info write that
\* was under way may leave the file truncated.
Interrupt(t) ==
    /\ op[t] = "backup"
    /\ pc[t] \notin { "idle", "done" }
    /\ \/ fs' = fs
       \/ /\ pc[t] \in InfoWriters
          /\ fs' = Truncated(fs, handle[t])
    /\ Leave(t, Interrupted("backup", handle[t], dry[t]))
    /\ pre' = pre
    /\ UNCHANGED << auxVars, now, target, handle, locals, rsyncVars >>

\* The process ends and a new one is started: handles are gone and the
\* rsync singleton is created anew with its class defaults.
Restart ==
    /\ \A t \in Threads : pc[t] = "idle"
    /\ handle' = [ t \in Threads |-> NoName ]
    /\ result' = [ t \in Threads |-> NoResult ]
    /\ rs_dry_run' = TRUE
    /\ rs_proc' = NoProc
    /\ rs_exit_code' = NoCode
    /\ pre' = pre
    /\ UNCHANGED << auxVars, now, fs, target, pc, locals >>

\* ------------------------------------------------------ specification
Next ==
    \/ Tick
    \/ Restart
    \/ \E t \in Threads : New(t)
    \/ \E t \in Threads, name \in Names : FromName(t, name)
    \/ \E t \in Threads, d \in BOOLEAN : BackupCall(t, d)
    \/ \E t \in Threads : BackupCheck(t)
    \/ \E t \in Threads : BackupGetSync(t)
    \/ \E t \in Threads : BackupMakedirs(t)
    \/ \E t \in Threads : BackupStarted(t)
    \/ \E t \in Threads : BackupLatest(t)
    \/ \E t \in Threads : SyncCmd(t)
    \/ \E t \in Threads : SyncExec(t)
    \/ \E t \in Threads : SyncLine(t)
    \/ \E t \in Threads : SyncEnd(t)
    \/ \E t \in Threads : SyncStatus(t)
    \/ \E t \in Threads : BackupFinished(t)
    \/ \E t \in Threads : BackupSize(t)
    \/ \E t \in Threads : BackupValid(t)
    \/ \E t \in Threads : BackupReturn(t)
    \/ \E t \in Threads, d \in BOOLEAN : RestoreCall(t, d)
    \/ \E t \in Threads : RestoreCheck(t)
    \/ \E t \in Threads : RestoreGetSync(t)
    \/ \E t \in Threads : RestoreInfo(t)
    \/ \E t \in Threads : RestoreReturn(t)
    \/ \E t \in Threads : RemoveCall(t)
    \/ \E t \in Threads : RemoveCheck(t)
    \/ \E t \in Threads : RemoveRrmdir(t)
    \/ \E t \in Threads, iv \in BOOLEAN, ii \in BOOLEAN :
         AllBackupsCall(t, iv, ii)
    \/ \E t \in Threads : AllBackupsRun(t)
    \/ \E t \in Threads : Interrupt(t)
    \/ \E t \in Threads : Resume(t)

Spec == Init /\ [][Next]_vars

\* ------------------------------------------- listing a root somebody filled
\* An entry holding an .info file whose 'valid' is v.
WithInfo(v) ==
    [ exists |-> TRUE, data |-> TRUE, files |-> 0,
      info |-> [ exists |-> TRUE, ok |-> TRUE,
                 d |-> Put(EmptyDict, "valid", v) ] ]

\* root_dir is missing, or holds the stray entry, one backup and one more
\* entry of any listed name (a plain entry or one with an .info file).
InitListing ==
    /\ now = 1
    /\ target = FALSE
    /\ Fresh(Threads)
    /\ NoCall
    /\ \/ /\ root = FALSE
          /\ fs = [ e \in Entries |-> Absent ]
       \/ /\ root = TRUE
          /\ \E x \in ListedNames, c \in { Bare, WithInfo(TRUE), WithInfo(FALSE) } :
               fs = [ e \in Entries \cup {x} |->
                        IF e = x THEN c
                        ELSE IF e \in Strays THEN Bare
                        ELSE IF e = NameTable[1] THEN WithInfo(TRUE)
                        ELSE Absent ]

NextListing ==
    \/ \E t \in Threads, iv \in BOOLEAN, ii \in BOOLEAN :
         AllBackupsCall(t, iv, ii)
    \/ \E t \in Threads : AllBackupsRun(t)
    \/ \E t \in Threads : Resume(t)

SpecListing == InitListing /\ [][NextListing]_vars

\* ============================================================== claims
\* t's call of method o has ended in the way `kind`.
Ended(t, o, kind) ==
    pc[t] = "done" /\ result[t].op = o /\ result[t].kind = kind

\* Statements of Backup.backup / rsync.sync that come after makedirs.
AfterMkdir ==
    { "b_started", "b_latest", "s_cmd", "s_exec", "s_run", "s_status",
      "b_finished", "b_size", "b_valid", "b_return" }

\* ---------------------------------------------------------------- C1
\* C1: once Backup.backup has returned, the backup is valid if and only if
\* dry_run was false and the transfer's exit code was 0.
C1_ValidIffRealSuccess ==
    \A t \in Threads :
      Ended(t, "backup", "returned") =>
        ( is_valid(fs, result[t].name)
            <=> (~result[t].dry /\ rc[t] = 0 /\ result[t].code = 0) )

C1_Witness ==
    \E t \in Threads :
      /\ Ended(t, "backup", "returned")
      /\ ~result[t].dry
      /\ rc[t] = 0
      /\ is_valid(fs, result[t].name)

\* ---------------------------------------------------------------- C2
\* C2 as stated: a real backup that ends with exit code 23 or 24 marks the
\* snapshot valid.
C2_PartialMarksValid ==
    \A t \in Threads :
      ( Ended(t, "backup", "returned") /\ ~result[t].dry
        /\ rc[t] \in {23, 24} )
        => is_valid(fs, result[t].name)

\* C2 amended: a real backup that ends with exit code 23 or 24 returns a
\* Status that is_complete, and leaves the snapshot not valid.
C2_PartialStaysInvalid ==
    \A t \in Threads :
      ( Ended(t, "backup", "returned") /\ ~result[t].dry
        /\ rc[t] \in {23, 24} )
        => ( /\ is_complete(result[t].code)
             /\ Exists(fs, result[t].name)
             /\ ~is_valid(fs, result[t].name) )

C2_Witness ==
    \E t \in Threads :
      /\ Ended(t, "backup", "returned")
      /\ ~result[t].dry
      /\ rc[t] = 24
      /\ ~is_valid(fs, result[t].name)

\* ---------------------------------------------------------------- C3
\* C3: Backup.backup on a backup whose directory exists raises
\* BackupAlreadyExistsException at its first statement: it gets no further,
\* and the disk (directories, .info, validity) is as it was on entry.
C3_ExistingIsRefusedUntouched ==
    \A t \in Threads :
      /\ ( op[t] = "backup" /\ pc[t] \notin { "idle", "b_check" }
           /\ Exists(pre[t].fs, handle[t]) )
           => ( /\ pc[t] = "done"
                /\ result[t].at = "b_check"
                /\ \/ result[t].kind = "interrupted"
                   \/ /\ result[t].kind = "raised"
                      /\ result[t].exc = "BackupAlreadyExistsException" )
      /\ ( Ended(t, "backup", "raised")
           /\ result[t].exc = "BackupAlreadyExistsException" )
           => ( /\ result[t].at = "b_check"
                /\ Exists(pre[t].fs, result[t].name)
                /\ fs = pre[t].fs
                /\ target = pre[t].target )

C3_Witness ==
    \E t \in Threads :
      /\ Ended(t, "backup", "raised")
      /\ result[t].exc = "BackupAlreadyExistsException"
      /\ is_valid(fs, result[t].name)

\* ---------------------------------------------------------------- C4
\* C4 as stated: a Backup.backup that raises, or whose transfer does not
\* succeed, leaves no backup_dir behind.
C4_FailureLeavesNothing ==
    \A t \in Threads :
      ( /\ pc[t] = "done"
        /\ result[t].op = "backup"
        /\ \/ result[t].kind = "returned" /\ result[t].code # 0
           \/ result[t].kind = "raised"
              /\ result[t].exc # "BackupAlreadyExistsException" )
        => ~Exists(fs, result[t].name)

\* C4 amended: backup_dir is on disk from the makedirs of a non-dry-run
\* Backup.backup on, whatever the call ends with; it was created by this
\* call exactly if the call was no dry run and got past makedirs, and it is
\* valid only if the transfer gave a Status with exit code 0 and the call
\* got past set_valid.
C4_MaterializesAtMakedirs ==
    \A t \in Threads :
      ( pc[t] = "done" /\ result[t].op = "backup" ) =>
        LET n == result[t].name IN
        /\ Exists(fs, n)
             <=> ( \/ Exists(pre[t].fs, n)
                   \/ ~result[t].dry /\ result[t].at \in AfterMkdir )
        /\ ( is_valid(fs, n) /\ ~Exists(pre[t].fs, n) )
             => ( status[t] = 0 /\ result[t].at = "b_return" )

C4_Witness ==
    \E t \in Threads :
      /\ Ended(t, "backup", "returned")
      /\ result[t].code = 1
      /\ Exists(fs, result[t].name)
      /\ ~is_valid(fs, result[t].name)

\* ---------------------------------------------------------------- C5
\* C5: a non-dry-run Backup.backup interrupted at any statement after
\* makedirs and up to the final set_valid leaves a snapshot that
\* all_backups(include_valid = include_invalid = true) returns and that is
\* not valid.
C5_InterruptedIsListedInvalid ==
    \A t \in Threads :
      ( /\ Ended(t, "backup", "interrupted")
        /\ ~result[t].dry
        /\ result[t].at \in AfterMkdir \ { "b_return" } )
        => ( /\ result[t].name \in Range(all_backups(fs, TRUE, TRUE))
             /\ result[t].name \in Range(all_backups(fs, FALSE, TRUE))
             /\ ~is_valid(fs, result[t].name) )

C5_Witness ==
    \E t \in Threads :
      /\ Ended(t, "backup", "interrupted")
      /\ ~result[t].dry
      /\ result[t].at = "s_run"
      /\ fs[result[t].name].files = 1

\* ---------------------------------------------------------------- C6
\* C6: a dry-run Backup.backup leaves backup_dir, data_dir and .info absent
\* (the disk is as it was on entry), so that the backup still does not
\* exist; and a non-dry-run Backup.backup on a backup that does not exist is
\* not refused and has the data directory and the .info file on disk from
\* its set_info('backup_started_at') on.
C6_DryRunCreatesNothing ==
    \A t \in Threads :
      /\ ( op[t] = "backup" /\ dry[t] /\ pc[t] # "idle"
           /\ ~Exists(pre[t].fs, handle[t]) )
           => ( /\ fs = pre[t].fs
                /\ ~Exists(fs, handle[t])
                /\ ~fs[handle[t]].data
                /\ ~fs[handle[t]].info.exists )
      /\ ( op[t] = "backup" /\ ~dry[t] /\ ~Exists(pre[t].fs, handle[t])
           /\ pc[t] \in (AfterMkdir \ { "b_started" }) )
           => ( /\ Exists(fs, handle[t])
                /\ fs[handle[t]].data
                /\ fs[handle[t]].info.exists )
      /\ ( Ended(t, "backup", "raised")
           /\ result[t].exc = "BackupAlreadyExistsException" )
           => Exists(pre[t].fs, result[t].name)

C6_Witness ==
    \E t \in Threads :
      /\ Ended(t, "backup", "returned")
      /\ result[t].dry
      /\ result[t].code = 0
      /\ cmdDry[t]
      /\ ~Exists(fs, result[t].name)

\* ---------------------------------------------------------------- C7
\* The valid backups of root_dir.
ValidBackups(f) == { n \in Names : Exists(f, n) /\ is_valid(f, n) }

\* The greatest name of a set of names, NoName for the empty set.
Greatest(S) ==
    IF S = {} THEN NoName
    ELSE CHOOSE n \in S : \A m \in S : NameIndex(m) <= NameIndex(n)

\* Statements at which link_dest has been chosen and the transfer not ended.
LinkChosen == { "s_cmd", "s_exec", "s_run" }

C8_RestoreOfMissingIsRefused ==
    \A t \in Threads :
      /\ ( op[t] = "restore" /\ pc[t] \notin { "idle", "r_check" }
           /\ ~Exists(pre[t].fs, handle[t]) )
           => ( /\ Ended(t, "restore", "raised")
                /\ result[t].exc = "BackupNotFoundException" )
      /\ ( Ended(t, "restore", "raised")
           /\ result[t].exc = "BackupNotFoundException" )
           => ( /\ result[t].at = "r_check"
                /\ ~Exists(pre[t].fs, result[t].name)
                /\ fs = pre[t].fs
                /\ ~fs[result[t].name].info.exists
                /\ target = pre[t].target )

C8_Witness ==
    \E t \in Threads :
      /\ Ended(t, "restore", "raised")
      /\ result[t].exc = "BackupNotFoundException"
      /\ ~result[t].dry

\* ---------------------------------------------------------------- C9
\* C9: Backup.remove on an existing backup deletes its whole directory and
\* nothing else: afterwards the backup does not exist and all_backups does
\* not return it, so that a second remove finds it absent; Backup.remove on
\* an absent backup raises BackupNotFoundException and leaves the disk as
\* it was.
C9_RemoveDeletesTreeOnce ==
    \A t \in Threads :
      /\ ( op[t] = "remove" /\ pc[t] \notin { "idle", "rm_check" } ) =>
           IF Exists(pre[t].fs, handle[t])
             THEN pc[t] = "rm_rrmdir" \/ Ended(t, "remove", "returned")
             ELSE /\ Ended(t, "remove", "raised")
                  /\ result[t].exc = "BackupNotFoundException"
      /\ Ended(t, "remove", "returned") =>
           LET n == result[t].name IN
           /\ fs[n] = Absent
           /\ ~Exists(fs, n)
           /\ n \notin Range(all_backups(fs, TRUE, TRUE))
           /\ \A e \in Entries \ {n} : fs[e] = pre[t].fs[e]
      /\ Ended(t, "remove", "raised") =>
           /\ result[t].exc = "BackupNotFoundException"
           /\ fs = pre[t].fs

C9_Witness ==
    \E t \in Threads :
      /\ Ended(t, "remove", "returned")
      /\ pre[t].fs[result[t].name].files = 1
      /\ is_valid(pre[t].fs, result[t].name)
      /\ ~Exists(fs, result[t].name)

\* --------------------------------------------------------------- C10
\* The entries of root_dir that are named after a timestamp and pass the
\* two flags.
Passing(f, include_valid, include_invalid) ==
    { e \in listdir(f) :
        /\ strptime(e)
        /\ \/ include_valid /\ is_valid(f, e)
           \/ include_invalid /\ ~is_valid(f, e) }

\* C10: all_backups returns, each once, exactly the timestamp-named entries
\* that pass the flags: all of them when both flags are true, the valid
\* ones under include_valid alone, the invalid ones under include_invalid
\* alone, none when both are false.
C10_AllBackupsFiltersByFlags ==
    \A t \in Threads :
      Ended(t, "all_backups", "returned") =>
        LET val == result[t].val
            iv  == flags[t][1]
            ii  == flags[t][2]
        IN  /\ Range(val) = Passing(fs, iv, ii)
            /\ Len(val) = Cardinality(Range(val))
            /\ (iv /\ ii) => Range(val) = { e \in listdir(fs) : strptime(e) }
            /\ (~iv /\ ~ii) => val = << >>

C10_Witness ==
    \E t \in Threads :
      /\ Ended(t, "all_backups", "returned")
      /\ flags[t] = << FALSE, TRUE >>
      /\ Len(result[t].val) = 1
      /\ ValidBackups(fs) # {}

\* ------------------------------------------------ functions on their own
\* The core at rest while a function is applied on its own.
CoreAtRest ==
    /\ now = 1
    /\ fs = [ e \in Entries |-> IF e \in Strays THEN Bare ELSE Absent ]
    /\ target = FALSE
    /\ Fresh(Threads)
    /\ root = TRUE

\* What a subprocess can end with (a returncode, negative when a signal
\* killed it) besides None, and a few numbers beyond.
CodeArgs == (0 - MaxSignal)..(255 + MaxSignal)

InitStatus ==
    /\ CoreAtRest
    /\ arg \in [ fn : { "Status" }, code : CodeArgs ]
    /\ out = NoOut
    /\ IOAtRest

\* Status(arg)
ApplyStatus ==
    /\ ~out.done
    /\ out' = Status(arg.code)
    /\ UNCHANGED << coreVars, root, arg, ioVars >>

\* Status is constructed for another code.
NextCode ==
    /\ out.done
    /\ arg' = [ arg EXCEPT !.code = IF @ = 255 + MaxSignal
                                       THEN 0 - MaxSignal ELSE @ + 1 ]
    /\ out' = NoOut
    /\ UNCHANGED << coreVars, root, ioVars >>

NextStatus == ApplyStatus \/ NextCode

SpecStatus == InitStatus /\ [][NextStatus]_vars

\* -------------------------------------------------- retention (helper.py)
\* date.toordinal(): days since 0001-01-01, that day being 1.
RECURSIVE DaysBeforeMonth(_, _)
DaysBeforeMonth(year, month) ==
    IF month = 1 THEN 0
    ELSE DaysBeforeMonth(year, month - 1) + DaysIn(year, month - 1)

toordinal(year, month, day) ==
    LET y == year - 1
    IN  y * 365 + (y \div 4) - (y \div 100) + (y \div 400)
          + DaysBeforeMonth(year, month) + day

\* Backup.datetime of a name, in seconds since 1990-01-01 00:00:00.
Stamp(name) ==
    LET dt == strptime_memo[name]
    IN  (toordinal(dt.Y, dt.m, dt.d) - toordinal(1990, 1, 1)) * 86400
          + dt.H * 3600 + dt.M * 60 + dt.S

\* datetime.datetime.now(), in the same seconds.
Clock == Stamp(NameTable[now])

BadInt == [ ok |-> FALSE, n |-> 0 ]

\* int(s) of a str: an optional sign and decimal digits, ValueError (BadInt)
\* for anything else the tokens of this model are spelled with.
int(s) ==
    LET body == IF s # << >> /\ s[1] \in { "-", "+" } THEN Tail(s) ELSE s
    IN  IF body = << >> \/ ~AllDigits(body) THEN BadInt
        ELSE [ ok |-> TRUE,
               n |-> IF s[1] = "-" THEN 0 - Num(body) ELSE Num(body) ]

\* duration.endswith(c)
endswith(s, c) == s # << >> /\ s[Len(s)] = c

\* utils.duration_to_timedelta(duration): the timedelta in seconds, None
\* when no branch returns, or the ValueError of int().
duration_to_timedelta(duration) ==
    LET num == int(AllButLast(duration)) IN
    IF ~num.ok THEN [ raised |-> "ValueError", none |-> FALSE, seconds |-> 0 ]
    ELSE IF endswith(duration, "s")
      THEN [ raised |-> "", none |-> FALSE, seconds |-> num.n ]
    ELSE IF endswith(duration, "m")
      THEN [ raised |-> "", none |-> FALSE, seconds |-> 60 * num.n ]
    ELSE IF endswith(duration, "h")
      THEN [ raised |-> "", none |-> FALSE, seconds |-> 3600 * num.n ]
    ELSE IF endswith(duration, "d")
      THEN [ raised |-> "", none |-> FALSE, seconds |-> 86400 * num.n ]
    ELSE IF endswith(duration, "w")
      THEN [ raised |-> "", none |-> FALSE, seconds |-> 604800 * num.n ]
    ELSE [ raised |-> "", none |-> TRUE, seconds |-> 0 ]

\* The element of a one-element set: The({ e(x) : x \in { v } }) is e(v)
\* with v worked out once.
The(S) == CHOOSE x \in S : TRUE

\* sorted(backups): by Backup.__lt__, equal names staying in their order
sorted(s) ==
    [ i \in 1..Len(s) |->
        s[CHOOSE k \in 1..Len(s) :
            Cardinality({ j \in 1..Len(s) :
                            \/ StrLess(s[j], s[k])
                            \/ ~StrLess(s[k], s[j]) /\ j < k }) = i - 1] ]

\* helper.get_backups(io, include_valid, include_invalid)
get_backups(f, include_valid, include_invalid) ==
    The({ sorted(b) : b \in { all_backups(f, include_valid, include_invalid) } })

\* s[:stop] of a Python list
SliceTo(s, stop) ==
    LET k == IF stop < 0 THEN (IF Len(s) + stop < 0 THEN 0 ELSE Len(s) + stop)
             ELSE (IF stop > Len(s) THEN Len(s) ELSE stop)
    IN  SubSeq(s, 1, k)

\* helper.remove_backups(names, dry_run): the target afterwards
RECURSIVE remove_backups(_, _, _)
remove_backups(f, names, dry_run) ==
    IF names = << >> THEN f
    ELSE LET n == Head(names)
             g == IF Exists(f, n) /\ ~dry_run THEN rrmdir(f, n) ELSE f
         IN  remove_backups(g, Tail(names), dry_run)

\* remove_but_keep keeping keep + 1 backups
remove_but_keep_names_one_more(f, keep) ==
    SliceTo(get_backups(f, TRUE, TRUE), 0 - (keep + 1))

\* The names remove_but_keep(keep) hands to remove_backups.
remove_but_keep_names(f, keep) ==
    IF keep = 0
      THEN get_backups(f, TRUE, TRUE)
      ELSE SliceTo(get_backups(f, TRUE, TRUE), 0 - keep)

\* helper.remove_but_keep(keep, dry_run)
RemoveButKeep(t, keep, d) ==
    /\ pc[t] = "idle"
    /\ Alone(t)
    /\ op' = [ op EXCEPT ![t] = "remove_but_keep" ]
    /\ dry' = [ dry EXCEPT ![t] = d ]
    /\ pre' = [ pre EXCEPT ![t] = Snapshot ]
    /\ arg' = [ fn |-> "remove_but_keep", keep |-> keep ]
    /\ LET names == remove_but_keep_names(fs, keep) IN
         /\ fs' = remove_backups(fs, names, d)
         /\ Leave(t, Returned("remove_but_keep", NoName, NoCode, d, names))
    /\ UNCHANGED << root, out, ioVars, now, target, handle, flags, link, cmdDry, rc,
                    status, rsyncVars >>

\* remove_older_than comparing with '<' instead of '<='
remove_older_than_names_strict(f, older_than) ==
    LET b == get_backups(f, TRUE, TRUE)
    IN  SelectSeq(b, LAMBDA n : Stamp(n) < older_than)

\* The names remove_older_than hands to remove_backups.
remove_older_than_names(f, older_than) ==
    LET b == get_backups(f, TRUE, TRUE)
    IN  SelectSeq(b, LAMBDA n : Stamp(n) <= older_than)

\* helper.remove_older_than(duration, dry_run)
RemoveOlderThan(t, duration, d) ==
    /\ pc[t] = "idle"
    /\ Alone(t)
    /\ op' = [ op EXCEPT ![t] = "remove_older_than" ]
    /\ dry' = [ dry EXCEPT ![t] = d ]
    /\ pre' = [ pre EXCEPT ![t] = Snapshot ]
    /\ arg' = [ fn |-> "remove_older_than", duration |-> duration ]
    /\ LET delta == duration_to_timedelta(duration) IN
         IF delta.raised = "ValueError"
           THEN \* print('Invalid duration specified.'); return
                /\ fs' = fs
                /\ Leave(t, [ Returned("remove_older_than", NoName, NoCode,
                                       d, << >>)
                              EXCEPT !.exc = "Invalid duration specified." ])
         ELSE IF delta.none
           THEN \* datetime - None
                /\ fs' = fs
                /\ Leave(t, Raised("remove_older_than", NoName, "TypeError", d))
         ELSE LET names == remove_older_than_names(fs, Clock - delta.seconds)
              IN  /\ fs' = remove_backups(fs, names, d)
                  /\ Leave(t, Returned("remove_older_than", NoName, NoCode,
                                       d, names))
    /\ UNCHANGED << root, out, ioVars, now, target, handle, flags, link, cmdDry, rc,
                    status, rsyncVars >>

\* The timestamps a pruned root may hold.
StoredNames == { NameTable[i] : i \in 1..MaxStored }

\* Amounts of each unit around one and two days, and the small ones.
Amounts ==
    [ s |-> { 86399, 86400, 86401 }, m |-> { 1439, 1440, 1441, 2880 },
      h |-> { 23, 24, 25, 48 }, d |-> { -1, 0, 1, 2, 3 }, w |-> { 0, 1 } ]

Units == { "s", "m", "h", "d", "w" }

\* Duration tokens '<integer><unit>'.
Durations ==
    UNION { { Spell(a) \o << u >> : a \in Amounts[u] } : u \in Units }

\* Tokens whose amount is not an integer, whose unit is none of s, m, h, d, w,
\* or both.
Malformed ==
    { << >>, << "d" >>, << "x", "d" >>, << "1", ".", "5", "h" >>,
      << "-", "d" >>, << "1", "-", "d" >>, << "1", "d", "d" >>,
      << "2", "x" >>, << "1", "2" >>, << "2", "." >>, << "1", "d", "x" >>,
      << "x", "x" >>, << "x" >> }

\* A root holding any of the stored timestamps, each valid or not, at any
\* time of the clock, about to be pruned once.
InitPrune ==
    /\ now \in 1..Len(NameTable)
    /\ fs \in [ StoredNames \cup Strays ->
                  { Absent, Bare, WithInfo(TRUE), WithInfo(FALSE) } ]
    /\ \A e \in Strays : fs[e] = Bare
    /\ target = FALSE
    /\ Fresh(Threads)
    /\ root = TRUE
    /\ NoCall

NextPrune ==
    \/ \E t \in Threads, keep \in 0..(MaxStored + 1), d \in BOOLEAN :
         RemoveButKeep(t, keep, d)
    \/ \E t \in Threads, duration \in Durations \cup Malformed, d \in BOOLEAN :
         RemoveOlderThan(t, duration, d)

SpecPrune == InitPrune /\ [][NextPrune]_vars

\* ------------------------------------- grandfather-father-son rotation
\* date.toordinal() of each of them, computed once
ordinal_memo == [ dt \in GffsDates |-> toordinal(dt.Y, dt.m, dt.d) ]

\* date.toordinal() of a datetime
Ordinal(dt) == ordinal_memo[dt]

\* datetime.weekday(): Monday is 0, Sunday is 6
weekday(dt) == (Ordinal(dt) + 6) % 7

\* Each rotated datetime in seconds since 1990-01-01 00:00:00, computed once
seconds_memo ==
    [ dt \in GffsDates |->
        (toordinal(dt.Y, dt.m, dt.d) - toordinal(1990, 1, 1)) * 86400
          + dt.H * 3600 + dt.M * 60 + dt.S ]

\* datetime.__gt__
Later(a, b) == seconds_memo[a] > seconds_memo[b]

\* The first day (as an ordinal) of the calendar day, ISO week, month or
\* year a datetime falls in, computed once for each rotated datetime.
tier_start_memo ==
    [ tier \in { "d", "w", "m", "y" } |->
        [ dt \in GffsDates |->
            LET o == toordinal(dt.Y, dt.m, dt.d) IN
            IF tier = "d" THEN o
            ELSE IF tier = "w" THEN o - ((o + 6) % 7)
            ELSE IF tier = "m" THEN toordinal(dt.Y, dt.m, 1)
            ELSE toordinal(dt.Y, 1, 1) ] ]

TierStart(tier, dt) == tier_start_memo[tier][dt]

\* The most recent / the oldest of a set of datetimes.
Latest(S) == CHOOSE a \in S : \A b \in S : ~Later(b, a)

Oldest(S) == CHOOSE a \in S : \A b \in S : ~Later(a, b)

\* The representative of the entries of one period: the most recent of the
\* day; for a week, month or year the most recent entry falling on
\* weekday_full, or the latest available if none does.
Representative(S, tier, weekday_full) ==
    The({ IF tier = "d" \/ on = {} THEN Latest(S) ELSE Latest(on) :
            on \in { { a \in S : weekday(a) = weekday_full } } })

\* The count greatest of a set of integers.
GreatestOf(K, count) ==
    { k \in K : Cardinality({ j \in K : j > k }) < count }

\* The periods of a tier that are kept: the most recent `count` that hold an
\* entry; the days tier counts consecutive calendar days back from the most
\* recent entry.
TierChosen(keys, tier, count) ==
    IF tier = "d" THEN { k \in keys : \A j \in keys : k > j - count }
    ELSE GreatestOf(keys, count)

\* One tier: of the pool, one representative for each kept period.
TierKept(pool, tier, count, weekday_full) ==
    The({ { Representative({ a \in pool : TierStart(tier, a) = k }, tier,
                           weekday_full) : k \in TierChosen(keys, tier, count) } :
            keys \in { { TierStart(tier, a) : a \in pool } } })

\* Walking further back: what is left for the coarser tier lies before the
\* boundary of the coarser period the finer tier reached.
Below(pool, kept, coarser) ==
    IF kept = {} THEN pool
    ELSE { a \in pool : Ordinal(a) < TierStart(coarser, Oldest(kept)) }

\* sorted(datetimes) of a set of datetimes
RECURSIVE Ascending(_)
Ascending(S) ==
    IF S = {} THEN << >>
    ELSE << Oldest(S) >> \o Ascending(S \ { Oldest(S) })

\* The tiers in the order they are filled, each from what the finer ones
\* left: the result of rotate_gffs once the years tier is known, ...
GffsResult(d, w, m, y) ==
    << Ascending(d), Ascending(w), Ascending(m), Ascending(y),
       Ascending(y \cup m \cup w \cup d) >>

\* ... the years tier once the months tier is known, ...
GffsYears(pool, d, w, m, years, weekday_full) ==
    The({ GffsResult(d, w, m, y) :
            y \in { TierKept(Below(pool, m, "y"), "y", years, weekday_full) } })

\* ... the months tier once the weeks tier is known, ...
GffsMonths(pool, d, w, months, years, weekday_full) ==
    The({ The({ GffsYears(left, d, w, m, years, weekday_full) :
                  m \in { TierKept(left, "m", months, weekday_full) } }) :
            left \in { Below(pool, w, "m") } })

\* ... and the weeks tier once the days tier is known.
GffsWeeks(pool, d, weeks, months, years, weekday_full) ==
    The({ The({ GffsMonths(left, d, w, months, years, weekday_full) :
                  w \in { TierKept(left, "w", weeks, weekday_full) } }) :
            left \in { Below(pool, d, "w") } })

\* utils.rotate_gffs(datetimes, days, weeks, months, years, weekday_full):
\* the four tiers and, last (Python index 4), the kept set.
rotate_gffs(datetimes, days, weeks, months, years, weekday_full) ==
    The({ The({ GffsWeeks(all, d, weeks, months, years, weekday_full) :
                  d \in { TierKept(all, "d", days, weekday_full) } }) :
            all \in { Range(datetimes) } })

\* backup_dates of remove_gffs: b.datetime of every backup of the root
backup_dates(f) ==
    The({ [ i \in 1..Len(b) |-> strptime_memo[b[i]] ] :
            b \in { get_backups(f, TRUE, TRUE) } })

\* [dt.strftime(NAME_FORMAT) for dt in dates if dt not in keep_dates]
remove_names(dates, keep_dates) ==
    The({ [ i \in 1..Len(remove_dates) |-> strftime(remove_dates[i]) ] :
            remove_dates \in
              { SelectSeq(dates, LAMBDA dt : dt \notin keep_dates) } })

\* The names remove_gffs hands to remove_backups.
remove_gffs_names(f, days, weeks, months, years, weekday_full) ==
    The({ The({ remove_names(dates, keep_dates) :
                  keep_dates \in
                    { Range(rotate_gffs(dates, days, weeks, months, years,
                                        weekday_full)[5]) } }) :
            dates \in { backup_dates(f) } })

\* helper.remove_gffs(days, weeks, months, years, dry_run)
RemoveGffs(t, days, weeks, months, years, weekday_full, d) ==
    /\ pc[t] = "idle"
    /\ Alone(t)
    /\ op' = [ op EXCEPT ![t] = "remove_gffs" ]
    /\ dry' = [ dry EXCEPT ![t] = d ]
    /\ pre' = [ pre EXCEPT ![t] = Snapshot ]
    /\ arg' = [ fn |-> "remove_gffs", days |-> days, weeks |-> weeks,
                months |-> months, years |-> years,
                weekday_full |-> weekday_full ]
    /\ \E names \in { remove_gffs_names(fs, days, weeks, months, years,
                                          weekday_full) } :
         /\ fs' = remove_backups(fs, names, d)
         /\ Leave(t, Returned("remove_gffs", NoName, NoCode, d, names))
    /\ UNCHANGED << root, out, ioVars, now, target, handle, flags, link, cmdDry, rc,
                    status, rsyncVars >>

\* A root holding any of the rotated names, about to be rotated once.
InitGffs ==
    /\ now = 1
    /\ \E held \in SUBSET GffsNames :
         fs = [ e \in GffsNames \cup Strays |->
                  IF e \in Strays THEN Bare
                  ELSE IF e \in held THEN WithInfo(TRUE) ELSE Absent ]
    /\ target = FALSE
    /\ Fresh(Threads)
    /\ root = TRUE
    /\ NoCall

NextGffs ==
    \E t \in { u \in Threads : pc[u] = "idle" } :
      \E days \in 0..MaxCount, weeks \in 0..MaxCount, months \in 0..MaxCount,
         years \in 0..MaxCount, weekday_full \in { 0, 6 }, d \in BOOLEAN :
           RemoveGffs(t, days, weeks, months, years, weekday_full, d)

SpecGffs == InitGffs /\ [][NextGffs]_vars

\* ------------------------------------------------------------ the daemon
\* daemon.Daemon serves every backup request in a thread of its own, which
\* ends with the request; the threads share the process, hence the rsync
\* singleton and the target.
Workers == 1..NumWorkers

InitDaemon ==
    /\ now = 1
    /\ fs = [ e \in Entries |-> IF e \in Strays THEN Bare ELSE Absent ]
    /\ target = FALSE
    /\ Fresh(Workers)
    /\ root = TRUE
    /\ NoCall

\* Daemon.backup(dry_run): threading.Thread(target=__backup).start(), and
\* the thread gets to helper.create_backup: bak = Backup.new(io, path);
\* bak.backup(includes, excludes, dry_run)
DaemonBackup(t, d) ==
    /\ pc[t] = "idle"
    /\ handle' = [ handle EXCEPT ![t] = NameTable[now] ]
    /\ pc' = [ pc EXCEPT ![t] = "b_check" ]
    /\ op' = [ op EXCEPT ![t] = "backup" ]
    /\ dry' = [ dry EXCEPT ![t] = d ]
    /\ pre' = [ pre EXCEPT ![t] = Snapshot ]
    /\ UNCHANGED << auxVars, now, fs, target, flags, link, cmdDry, rc, status,
                    result, rsyncVars >>

\* _exec: if self._proc: raise RuntimeError('A process is already running!')
ExecGuard(t) ==
    /\ pc[t] = "s_exec"
    /\ IF rs_proc # NoProc
         THEN Leave(t, Raised(op[t], handle[t], "RuntimeError", dry[t]))
         ELSE /\ pc' = [ pc EXCEPT ![t] = "s_popen" ]
              /\ result' = result
    /\ pre' = pre
    /\ UNCHANGED << auxVars, now, fs, target, handle, locals, rsyncVars >>

\* _exec: with subprocess.Popen(...) as proc: self._proc = proc;
\* self._exit_code = None
ExecPopen(t) ==
    /\ pc[t] = "s_popen"
    /\ rs_proc' = t
    /\ rs_exit_code' = NoCode
    /\ rc' = [ rc EXCEPT ![t] = NoCode ]
    /\ pc' = [ pc EXCEPT ![t] = "s_run" ]
    /\ pre' = pre
    /\ UNCHANGED << auxVars, now, fs, target, handle, op, dry, flags, link,
                    cmdDry, status, result, rs_dry_run >>

NextDaemon ==
    \/ Tick
    \/ \E t \in Workers, d \in BOOLEAN : DaemonBackup(t, d)
    \/ \E t \in Workers : BackupCheck(t)
    \/ \E t \in Workers : BackupGetSync(t)
    \/ \E t \in Workers : BackupMakedirs(t)
    \/ \E t \in Workers : BackupStarted(t)
    \/ \E t \in Workers : BackupLatest(t)
    \/ \E t \in Workers : SyncCmd(t)
    \/ \E t \in Workers : ExecGuard(t)
    \/ \E t \in Workers : ExecPopen(t)
    \/ \E t \in Workers : SyncLine(t)
    \/ \E t \in Workers : SyncEnd(t)
    \/ \E t \in Workers : SyncStatus(t)
    \/ \E t \in Workers : BackupFinished(t)
    \/ \E t \in Workers : BackupSize(t)
    \/ \E t \in Workers : BackupValid(t)
    \/ \E t \in Workers : BackupReturn(t)

SpecDaemon == InitDaemon /\ [][NextDaemon]_vars

\* ============================================================ IO (utils.py)
\* os.path.isabs(path)
isabs(path) == path # << >> /\ path[1] = "/"

\* os.path.dirname(path) of a path without a trailing '/'
dirname(path) ==
    LET slashes == { i \in 1..Len(path) : path[i] = "/" } IN
    IF slashes = {} THEN << >>
    ELSE LET last == CHOOSE i \in slashes : \A j \in slashes : j <= i
         IN  IF last = 1 THEN Slash ELSE SubSeq(path, 1, last - 1)

\* What is at a path: "dir", "file", "link" or "none"; '/' is a directory.
Kind(d, path) ==
    IF path = Slash THEN "dir"
    ELSE IF path \in DiskNodes THEN d[path].kind ELSE "none"

\* Where a path leads once the symbolic links at it are followed: a path
\* that holds no link (it may hold nothing), or NoName for a loop of links.
RECURSIVE Final(_, _, _)
Final(d, path, hops) ==
    IF Kind(d, path) # "link" THEN path
    ELSE IF hops = 0 THEN NoName
    ELSE Final(d, d[path].to, hops - 1)

\* stat(path).st_mode, "none" where stat fails
StatKind(d, path) == Kind(d, Final(d, path, Cardinality(DiskNodes)))

\* The entries of a directory / everything at and below a path.
Children(d, path) ==
    { q \in DiskNodes : dirname(q) = path /\ d[q].kind # "none" }

Subtree(path) ==
    { q \in DiskNodes : q = path \/ dirname(q) = path
                          \/ dirname(dirname(q)) = path }

\* The tree top-down.
WalkOrder ==
    << Slash, << "/", "a" >>, << "/", "a", "/", "b" >>, << "/", "b" >> >>

\* What an operation did: the tree afterwards, the calls it made, what it
\* raised ("" if nothing) and what it returned.
Did(d, calls, raised, value) ==
    [ disk |-> d, calls |-> calls, raised |-> raised, value |-> value ]

Sys(api, path) == [ api |-> api, path |-> path ]

None == [ none |-> TRUE ]

Bool(b) == [ bool |-> b ]

Listing(S) == [ entries |-> S ]

\* The error of a failed SFTP request: the server reports a missing file
\* or a failure, paramiko raises IOError with ENOENT or without errno.
SftpError(local_error) ==
    IF local_error = "FileNotFoundError" THEN local_error ELSE "OSError"

\* An operation making the one call `api` that fails with `error` (as the
\* local call names it) or does `d2` and returns `value`.
OneCall(remote, d, api, path, error, d2, value) ==
    IF error # ""
      THEN Did(d, << Sys(api, path) >>,
               IF remote THEN SftpError(error) ELSE error, None)
      ELSE Did(d2, << Sys(api, path) >>, "", value)

\* Why a new entry cannot be made at path ("" if it can).
CannotCreate(d, path) ==
    IF Kind(d, path) # "none" THEN "FileExistsError"
    ELSE IF StatKind(d, dirname(path)) = "none" THEN "FileNotFoundError"
    ELSE IF StatKind(d, dirname(path)) # "dir" THEN "NotADirectoryError"
    ELSE IF path \notin DiskNodes THEN "FileNotFoundError"
    ELSE ""

\* The exception classes `except IOError` catches.
IOErrors ==
    { "FileNotFoundError", "PermissionError", "ConnectionResetError",
      "OSError" }

\* What can fail an SFTP request whatever the tree holds: the server denies
\* permission (IOError with EACCES), the socket is reset (an OSError) or
\* the channel is closed (paramiko's SSHException, no IOError).
Faults == { "PermissionError", "ConnectionResetError", "SSHException" }

\* What _sftp.stat(path) (follow) or _sftp.lstat(path) raises, "" if it
\* returns the attributes.
sftp_stat(d, path, follow, fault) ==
    IF fault # "" THEN fault
    ELSE IF (IF follow THEN StatKind(d, path) ELSE Kind(d, path)) = "none"
      THEN "FileNotFoundError"
    ELSE ""

\* try: return test(stat(path).st_mode) / except FileNotFoundError:
\* return False
StatTest(d, api, path, error, value) ==
    Did(d, << Sys(api, path) >>,
        IF error \in { "", "FileNotFoundError" } THEN "" ELSE error,
        IF error = "" THEN Bool(value)
        ELSE IF error = "FileNotFoundError" THEN Bool(FALSE) ELSE None)

\* IO.isfile
isfile(remote, d, path, fault) ==
    IF remote
      THEN StatTest(d, "sftp.stat", path, sftp_stat(d, path, TRUE, fault),
                    StatKind(d, path) = "file")
      ELSE OneCall(remote, d, "os.path.isfile", path, "", d,
                   Bool(StatKind(d, path) = "file"))

\* IO.islink
islink(remote, d, path, fault) ==
    IF remote
      THEN StatTest(d, "sftp.lstat", path, sftp_stat(d, path, FALSE, fault),
                    Kind(d, path) = "link")
      ELSE OneCall(remote, d, "os.path.islink", path, "", d,
                   Bool(Kind(d, path) = "link"))

\* IO.isdir
isdir(remote, d, path, fault) ==
    IF remote
      THEN StatTest(d, "sftp.stat", path, sftp_stat(d, path, TRUE, fault),
                    StatKind(d, path) = "dir")
      ELSE OneCall(remote, d, "os.path.isdir", path, "", d,
                   Bool(StatKind(d, path) = "dir"))

\* IO.listdir
io_listdir(remote, d, path) ==
    OneCall(remote, d, IF remote THEN "sftp.listdir" ELSE "os.listdir", path,
            IF StatKind(d, path) = "none" THEN "FileNotFoundError"
            ELSE IF StatKind(d, path) # "dir" THEN "NotADirectoryError"
            ELSE "",
            d, Listing(Children(d, Final(d, path, Cardinality(DiskNodes)))))

\* IO.walk, the generator run to its end: one listing for each directory
\* from path down; os.walk skips what it cannot list, listdir_attr raises.
walk(remote, d, path) ==
    LET top == Final(d, path, Cardinality(DiskNodes))
        dirs == SelectSeq(WalkOrder,
                          LAMBDA q : /\ Kind(d, q) = "dir"
                                     /\ q = top \/ q \in Subtree(top)
                                     /\ Kind(d, dirname(q)) = "dir")
        api == IF remote THEN "sftp.listdir_attr" ELSE "os.walk"
    IN  IF StatKind(d, path) = "dir"
          THEN Did(d, [ i \in 1..Len(dirs) |-> Sys(api, dirs[i]) ], "",
                   Listing(Range(dirs)))
          ELSE Did(d, << Sys(api, path) >>,
                   IF ~remote THEN ""
                   ELSE IF StatKind(d, path) = "none"
                     THEN "FileNotFoundError" ELSE "OSError",
                   Listing({}))

\* IO.mkdir
mkdir(remote, d, path) ==
    OneCall(remote, d, IF remote THEN "sftp.mkdir" ELSE "os.mkdir", path,
            CannotCreate(d, path),
            [ d EXCEPT ![path] = [ kind |-> "dir", to |-> NoName ] ], None)

\* IO.exists: try: _sftp.stat(path) / except IOError as e: if e.errno ==
\* errno.ENOENT: return False / return True
exists(remote, d, path, fault) ==
    IF remote
      THEN LET error == sftp_stat(d, path, TRUE, fault) IN
           Did(d, << Sys("sftp.stat", path) >>,
               IF error \in IOErrors THEN "" ELSE error,
               IF error = "FileNotFoundError" THEN Bool(FALSE)
               ELSE IF error = "" \/ error \in IOErrors THEN Bool(TRUE)
               ELSE None)
      ELSE OneCall(remote, d, "os.path.exists", path, "", d,
                   Bool(StatKind(d, path) # "none"))

\* path.split('/') joined again one component at a time, from '/' on:
\* the paths IO.makedirs looks at on a remote target.
RECURSIVE Prefixes(_)
Prefixes(path) ==
    IF path = Slash \/ path = << >> THEN << Slash >>
    ELSE Prefixes(dirname(path)) \o << path >>

\* The loop of IO.makedirs on a remote target: exists(current), and
\* _sftp.mkdir(current) where it does not.
RECURSIVE makedirs_loop(_, _, _)
makedirs_loop(d, calls, todo) ==
    IF todo = << >> THEN Did(d, calls, "", None)
    ELSE LET current == Head(todo)
             seen == calls \o exists(TRUE, d, current, "").calls
         IN  IF exists(TRUE, d, current, "").value.bool
               THEN makedirs_loop(d, seen, Tail(todo))
             ELSE IF CannotCreate(d, current) # ""
               THEN Did(d, seen \o << Sys("sftp.mkdir", current) >>,
                        SftpError(CannotCreate(d, current)), None)
             ELSE makedirs_loop(
                    [ d EXCEPT ![current] = [ kind |-> "dir", to |-> NoName ] ],
                    seen \o << Sys("sftp.mkdir", current) >>, Tail(todo))

\* os.makedirs(path, exist_ok=True): the directories missing on the way are
\* made, a directory that is there is left alone.
RECURSIVE os_makedirs(_, _)
os_makedirs(d, todo) ==
    IF todo = << >> THEN [ disk |-> d, error |-> "" ]
    ELSE LET current == Head(todo) IN
         IF StatKind(d, current) = "dir" THEN os_makedirs(d, Tail(todo))
         ELSE IF Kind(d, current) # "none"
           THEN [ disk |-> d,
                  error |-> IF Tail(todo) = << >> THEN "FileExistsError"
                            ELSE "NotADirectoryError" ]
         ELSE IF current \notin DiskNodes
           THEN [ disk |-> d, error |-> "FileNotFoundError" ]
         ELSE os_makedirs(
                [ d EXCEPT ![current] = [ kind |-> "dir", to |-> NoName ] ],
                Tail(todo))

\* IO.makedirs
io_makedirs(remote, d, path) ==
    IF remote THEN makedirs_loop(d, << >>, Prefixes(path))
    ELSE LET made == os_makedirs(d, Prefixes(path))
         IN  Did(made.disk, << Sys("os.makedirs", path) >>, made.error, None)

\* IO.symlink
symlink(remote, d, src, dst) ==
    OneCall(remote, d, IF remote THEN "sftp.symlink" ELSE "os.symlink", dst,
            CannotCreate(d, dst),
            [ d EXCEPT ![dst] = [ kind |-> "link", to |-> src ] ], None)

\* IO.touch: open(path, 'a').close()
touch(remote, d, path) ==
    LET at == Final(d, path, Cardinality(DiskNodes)) IN
    OneCall(remote, d, IF remote THEN "sftp.open" ELSE "open", path,
            IF at = NoName THEN "OSError"
            ELSE IF Kind(d, at) = "dir" THEN "IsADirectoryError"
            ELSE IF Kind(d, at) = "file" THEN ""
            ELSE IF CannotCreate(d, at) = "FileExistsError" THEN ""
            ELSE CannotCreate(d, at),
            IF at \in DiskNodes
              THEN [ d EXCEPT ![at] = [ kind |-> "file", to |-> NoName ] ]
              ELSE d,
            None)

\* IO.remove
remove(remote, d, path) ==
    OneCall(remote, d, IF remote THEN "sftp.remove" ELSE "os.remove", path,
            IF Kind(d, path) = "none" THEN "FileNotFoundError"
            ELSE IF Kind(d, path) = "dir" THEN "IsADirectoryError"
            ELSE "",
            [ q \in DiskNodes |-> IF q = path THEN NoNode ELSE d[q] ], None)

\* IO.rmdir
rmdir(remote, d, path) ==
    OneCall(remote, d, IF remote THEN "sftp.rmdir" ELSE "os.rmdir", path,
            IF Kind(d, path) = "none" THEN "FileNotFoundError"
            ELSE IF Kind(d, path) # "dir" THEN "NotADirectoryError"
            ELSE IF path = Slash \/ Children(d, path) # {} THEN "OSError"
            ELSE "",
            [ q \in DiskNodes |-> IF q = path THEN NoNode ELSE d[q] ], None)

\* The tree without what is at and below a path.
Without(d, path) ==
    [ q \in DiskNodes |-> IF q \in Subtree(path) THEN NoNode ELSE d[q] ]

\* IO.rrmdir: shutil.rmtree(path), which empties '/' and then fails on it,
\* or `rm -rf 'path'` over SSH, which refuses '/' and fails in silence.
io_rrmdir(remote, d, path) ==
    IF remote
      THEN Did(IF path = Slash THEN d ELSE Without(d, path),
               << Sys("ssh.exec_command", path) >>, "", None)
      ELSE Did(IF Kind(d, path) = "dir"
                 THEN [ q \in DiskNodes |->
                          IF path = Slash \/ q \in Subtree(path)
                            THEN NoNode ELSE d[q] ]
                 ELSE d,
               << Sys("shutil.rmtree", path) >>,
               IF Kind(d, path) = "none" THEN "FileNotFoundError"
               ELSE IF Kind(d, path) = "link" THEN "OSError"
               ELSE IF Kind(d, path) = "file" THEN "NotADirectoryError"
               ELSE IF path = Slash THEN "OSError"
               ELSE "",
               None)

\* validate_absolute looking at the first argument only
validate_absolute_first_only(d, args, returned) ==
    IF args # << >> /\ ~isabs(args[1])
      THEN Did(d, << >>, "ValueError", None)
      ELSE returned

\* @validate_absolute: ValueError for the first str argument that is not an
\* absolute path, else what func(*args) does.
validate_absolute(d, args, returned) ==
    IF \E i \in 1..Len(args) : ~isabs(args[i])
      THEN Did(d, << >>, "ValueError", None)
      ELSE returned

\* The methods of IO that take one path.
OnePath ==
    { "isfile", "islink", "isdir", "listdir", "walk", "mkdir", "makedirs",
      "touch", "exists", "remove", "rmdir", "rrmdir" }

\* The methods that test a path with one stat request.
StatTests == { "isfile", "islink", "isdir", "exists" }

\* The undecorated method fn of a local or remote IO.
Undecorated(fn, remote, d, args, fault) ==
    CASE fn = "isfile" -> isfile(remote, d, args[1], fault)
      [] fn = "islink" -> islink(remote, d, args[1], fault)
      [] fn = "isdir" -> isdir(remote, d, args[1], fault)
      [] fn = "listdir" -> io_listdir(remote, d, args[1])
      [] fn = "walk" -> walk(remote, d, args[1])
      [] fn = "mkdir" -> mkdir(remote, d, args[1])
      [] fn = "makedirs" -> io_makedirs(remote, d, args[1])
      [] fn = "symlink" -> symlink(remote, d, args[1], args[2])
      [] fn = "touch" -> touch(remote, d, args[1])
      [] fn = "exists" -> exists(remote, d, args[1], fault)
      [] fn = "remove" -> remove(remote, d, args[1])
      [] fn = "rmdir" -> rmdir(remote, d, args[1])
      [] fn = "rrmdir" -> io_rrmdir(remote, d, args[1])

\* io.fn(*args) on a local or remote IO, the SFTP request of a remote test
\* failing with `fault` ("" if the server answers)
IOCall(fn, remote, args, fault) ==
    /\ ~out.done
    /\ arg' = [ fn |-> fn, remote |-> remote, args |-> args,
                fault |-> fault ]
    /\ \E did \in { validate_absolute(disk, args,
                       Undecorated(fn, remote, disk, args, fault)) } :
         /\ disk' = did.disk
         /\ syscalls' = did.calls
         /\ out' = [ done |-> TRUE, raised |-> did.raised,
                     value |-> did.value ]
    /\ UNCHANGED << coreVars, root, instances, heap >>

\* Paths that are absolute, and strs that are not.
AbsPaths == { Slash } \cup DiskNodes

RelPaths ==
    { << >>, << "." >>, << "a" >>, << "a", "/", "b" >>,
      << ".", "/", "a" >> }

\* Trees a target can hold: an entry only in a directory, a link to any
\* other path.
Disks ==
    { d \in [ DiskNodes ->
                [ kind : { "none", "file", "dir" }, to : { NoName } ]
                  \cup [ kind : { "link" }, to : AbsPaths ] ] :
        /\ \A q \in DiskNodes :
             d[q].kind # "none" => Kind(d, dirname(q)) = "dir"
        /\ \A q \in DiskNodes : d[q].to # q }

InitIO ==
    /\ CoreAtRest
    /\ arg = NoArg
    /\ out = NoOut
    /\ disk \in Disks
    /\ syscalls = << >>
    /\ instances = EmptyDict
    /\ heap = << >>

NextIO ==
    \/ \E fn \in OnePath, remote \in BOOLEAN, path \in AbsPaths \cup RelPaths :
         IOCall(fn, remote, << path >>, "")
    \/ \E remote \in BOOLEAN, src \in AbsPaths \cup RelPaths,
          dst \in AbsPaths \cup RelPaths :
         IOCall("symlink", remote, << src, dst >>, "")
    \/ \E fn \in StatTests, path \in AbsPaths \cup RelPaths, fault \in Faults :
         IOCall(fn, TRUE, << path >>, fault)

SpecIO == InitIO /\ [][NextIO]_vars

\* ------------------------------------------------------------- IO.get
\* str(x) as '{}'.format(x) spells a parameter: None, a str or an int.
NoneStr == << "N", "o", "n", "e" >>

Format(x) ==
    IF x = NoName THEN NoneStr ELSE x

\* The key of IO.get:
\* '{}_{}_{}_{}'.format(host, port, username, config_file, key_file),
\* a format string of four fields.
InstanceKey(p) ==
    Format(p.host) \o << "_" >> \o Format(p.port) \o << "_" >>
      \o Format(p.username) \o << "_" >> \o Format(p.config_file)

\* Connection parameters: each None or one value.
Params ==
    [ host : { NoName, << "h" >> }, port : { NoName, Spell(22) },
      username : { NoName, << "u" >> }, config_file : { NoName, << "c" >> },
      key_file : { NoName, << "k" >> } ]

\* IO.is_local
is_local(p) == p.host = NoName

\* IO.get(host, port, username, config_file, key_file); `connects` is
\* whether _ssh.connect and open_sftp of a new remote instance succeed.
IOGet(p, connects) ==
    /\ InstanceKey(p) \in DOMAIN instances \/ Len(heap) < MaxInstances
    /\ arg' = [ fn |-> "IO.get", params |-> p ]
    /\ IF InstanceKey(p) \in DOMAIN instances
         THEN /\ out' = [ done |-> TRUE, raised |-> "",
                          instance |-> instances[InstanceKey(p)] ]
              /\ UNCHANGED << instances, heap >>
       ELSE IF ~is_local(p) /\ ~connects
         THEN \* IO.__init__ raises out of _connect_remote
              /\ out' = [ done |-> TRUE, raised |-> "SSHException",
                          instance |-> 0 ]
              /\ UNCHANGED << instances, heap >>
       ELSE /\ heap' = Append(heap,
                         [ params |-> p, _instance_key |-> InstanceKey(p),
                           session |-> IF is_local(p) THEN 0
                                       ELSE Len(heap) + 1 ])
            /\ instances' = Put(instances, InstanceKey(p), Len(heap) + 1)
            /\ out' = [ done |-> TRUE, raised |-> "",
                        instance |-> Len(heap) + 1 ]
    /\ UNCHANGED << coreVars, root, disk, syscalls >>

InitGet ==
    /\ CoreAtRest
    /\ NoCall

NextGet == \E p \in Params, connects \in BOOLEAN : IOGet(p, connects)

SpecGet == InitGet /\ [][NextGet]_vars

\* ------------------------------------- listing while backups are removed
\* Backup.all_backups and Backup.latest statement by statement, next to an
\* actor (another dups process, a daemon thread) that removes backups.
\* arg.todo is what is left of the listing, out.backups the list so far.
Listers == { "all_backups", "latest" }

\* listing = io.listdir(root_dir); except FileNotFoundError: return []
ListingStart(fn, include_valid, include_invalid) ==
    /\ arg = NoArg
    /\ arg' = [ fn |-> fn, include_valid |-> include_valid,
                include_invalid |-> include_invalid,
                todo |-> IF root THEN SeqOf(listdir(fs)) ELSE << >> ]
    /\ out' = [ done |-> FALSE, backups |-> << >> ]
    /\ UNCHANGED << coreVars, root, ioVars >>

\* One round of `for f in listing`: strptime(f, NAME_FORMAT), then
\* bak = cls.from_name(io, f, root_dir), which raises
\* BackupNotFoundException unless bak.exists, then the validity filter.
ListingEntry ==
    /\ arg.fn \in Listers
    /\ ~out.done
    /\ arg.todo # << >>
    /\ \E f \in { Head(arg.todo) } :
         IF strptime(f) /\ ~Exists(fs, f)
           THEN out' = [ done |-> TRUE, raised |-> "BackupNotFoundException",
                         value |-> << >> ]
           ELSE out' = [ out EXCEPT !.backups =
                           @ \o all_backups_loop(fs, << f >>,
                                                 arg.include_valid,
                                                 arg.include_invalid) ]
    /\ arg' = [ arg EXCEPT !.todo = Tail(@) ]
    /\ UNCHANGED << coreVars, root, ioVars >>

\* return backups, or for latest: sorted(backups, reverse=True)[0], None
\* (here << >>) for an empty list.
ListingReturn ==
    /\ arg.fn \in Listers
    /\ ~out.done
    /\ arg.todo = << >>
    /\ out' = [ done |-> TRUE, raised |-> "",
                value |-> IF arg.fn = "all_backups" THEN out.backups
                          ELSE IF out.backups = << >> THEN << >>
                          ELSE << CHOOSE b \in Range(out.backups) :
                                    \A o \in Range(out.backups) :
                                      ~NameLess(b, o) >> ]
    /\ arg' = arg
    /\ UNCHANGED << coreVars, root, ioVars >>

\* Another actor runs Backup.remove on a backup that is there.
OtherRemove(n) ==
    /\ Exists(fs, n)
    /\ fs' = rrmdir(fs, n)
    /\ UNCHANGED << now, target, handle, pc, locals, result, rsyncVars, pre,
                    auxVars >>

\* A root that holds the stray entry and any backups, valid or not.
InitRace ==
    /\ now = 1
    /\ target = FALSE
    /\ Fresh(Threads)
    /\ root = TRUE
    /\ NoCall
    /\ fs \in [ Entries -> { Absent, Bare, WithInfo(TRUE), WithInfo(FALSE) } ]
    /\ \A e \in Strays : fs[e] = Bare

NextRace ==
    \/ \E fn \in Listers, iv \in BOOLEAN, ii \in BOOLEAN :
         ListingStart(fn, iv, ii)
    \/ ListingEntry
    \/ ListingReturn
    \/ \E n \in Names : OtherRemove(n)

SpecRace == InitRace /\ [][NextRace]_vars

\* ============================================================ rsync.sync
\* A token of a command: a word the code spells out, or text made from a
\* value (a str as the sequence of its characters).
Lit(word) == [ lit |-> word ]

Text(chars) == [ text |-> chars ]

Lower ==
    { "a", "b", "c", "d", "e", "f", "g", "h", "i", "j", "k", "l", "m", "n",
      "o", "p", "q", "r", "s", "t", "u", "v", "w", "x", "y", "z" }

Upper ==
    { "A", "B", "C", "D", "E", "F", "G", "H", "I", "J", "K", "L", "M", "N",
      "O", "P", "Q", "R", "S", "T", "U", "V", "W", "X", "Y", "Z" }

\* What the class [^a-zA-Z0-9,._+:@%/\-*] of _escape does not match; the
\* '\-' in it is the hyphen.
Unescaped ==
    Lower \cup Upper \cup Digits
      \cup { ",", ".", "_", "+", ":", "@", "%", "/", "-", "*" }

\* rsync._escape: re.sub(r'([^a-zA-Z0-9,._+:@%/\-*])', r'\\\1', path)
RECURSIVE _escape(_)
_escape(path) ==
    IF path = << >> THEN << >>
    ELSE (IF Head(path) \in Unescaped THEN << Head(path) >>
          ELSE << "\\", Head(path) >>) \o _escape(Tail(path))

\* s.replace("'", "'\"'\"'")
RECURSIVE ReplaceQuotes(_)
ReplaceQuotes(s) ==
    IF s = << >> THEN << >>
    ELSE (IF Head(s) = "'" THEN << "'", "\"", "'", "\"", "'" >>
          ELSE << Head(s) >>) \o ReplaceQuotes(Tail(s))

\* shlex.quote(s)
shlex_quote(s) ==
    IF s = << >> THEN << "'", "'" >>
    ELSE IF \A i \in 1..Len(s) :
              s[i] \in Lower \cup Upper \cup Digits
                         \cup { "_", "@", "%", "+", "=", ":", ",", ".", "/",
                                "-" }
      THEN s
    ELSE << "'" >> \o ReplaceQuotes(s) \o << "'" >>

\* Path.resolved: the path, or '<host>:<path>' of a remote one
resolved(p) ==
    IF p.host = NoName THEN p.path ELSE p.host \o << ":" >> \o p.path

\* rsync.cmd
cmd(self) ==
    LET base == << Lit("/usr/bin/rsync"), Lit("--archive"), Lit("--relative"),
                   Lit("--human-readable"), Lit("--stats"), Lit("--verbose") >>
        first == IF self.dry_run
                   THEN << Head(base), Lit("--dry-run") >> \o Tail(base)
                   ELSE base
    IN  first
          \o (IF self.out_format # << >>
                THEN << Lit("--out-format"),
                        Text(shlex_quote(self.out_format)) >>
                ELSE << >>)
          \o (IF self.acls THEN << Lit("--acls") >> ELSE << >>)
          \o (IF self.xattrs THEN << Lit("--xattrs") >> ELSE << >>)
          \o (IF self.prune_empty_dirs
                THEN << Lit("--prune-empty-dirs") >> ELSE << >>)

\* rsync.ssh_cmd, ssh_config_file ('~/.ssh/config') being there or not
ssh_cmd(self) ==
    << Lit("/usr/bin/ssh"), Lit("-o"), Lit("StrictHostKeyChecking=no"),
       Lit("-o"), Lit("NumberOfPasswordPrompts=0") >>
      \o (IF self.ssh_config
            THEN << Lit("-F"),
                    Text(shlex_quote(<< "~", "/", ".", "s", "s", "h", "/",
                                        "c", "o", "n", "f", "i", "g" >>)) >>
            ELSE << >>)

\* ('--exclude', shlex.quote(e)) for each e
RECURSIVE Excluded(_)
Excluded(excludes) ==
    IF excludes = << >> THEN << >>
    ELSE << Lit("--exclude"), Text(shlex_quote(Head(excludes))) >>
           \o Excluded(Tail(excludes))

\* rsync.sync up to self._exec(cmd): the command it hands to _exec
sync(self, dest, includes, excludes, link_dest) ==
    LET c1 == cmd(self)
        \* cmd[1:1] = ['-e', shlex.quote(' '.join(ssh_cmd))]
        c2 == << Head(c1), Lit("-e"), [ quoted |-> ssh_cmd(self) ] >>
                \o Tail(c1)
        \* cmd[0:0] = ['cd', '/;']
        c3 == << Lit("cd"), Lit("/;") >> \o c2
    IN  c3
          \o (IF link_dest # NoName
                THEN << Lit("--delete"), Lit("--link-dest"),
                        Text(shlex_quote(link_dest)) >>
                ELSE << >>)
          \o [ i \in 1..Len(includes) |-> Text(_escape(includes[i])) ]
          \o Excluded(excludes)
          \o << Text(resolved(dest)) >>

\* Characters a path is made of here: kept ones, a backslash, and others.
Alphabet ==
    { "a", "Z", "0", ",", ".", "_", "+", ":", "@", "%", "/", "-", "*", "\\",
      " ", "'", "$" }

\* r'test\ \*\ folder/*.pattern' of tests/test_3_rsync.py
EscapedPattern ==
    << "t", "e", "s", "t", "\\", " ", "\\", "*", "\\", " ", "f", "o", "l",
       "d", "e", "r", "/", "*", ".", "p", "a", "t", "t", "e", "r", "n" >>

\* The strs given to _escape: all of up to MaxToken characters, and the
\* pattern of the test.
Tokens ==
    UNION { [ 1..k -> Alphabet ] : k \in 0..MaxToken } \cup { EscapedPattern }

\* '%t %i %n', the out_format of the class
OutFormat == << "%", "t", " ", "%", "i", " ", "%", "n" >>

SyncArgs ==
    [ fn : { "sync" },
      self : [ dry_run : BOOLEAN, out_format : { << >>, OutFormat },
               acls : BOOLEAN, xattrs : BOOLEAN, prune_empty_dirs : BOOLEAN,
               ssh_config : BOOLEAN ],
      target : [ path : { << "/", "t" >> }, host : { NoName, << "h" >> } ],
      includes : { << >>, << << "/", "a" >> >>,
                   << << "/", "a", " ", "b" >>, << "*" >> >> },
      excludes : { << >>, << << "*", ".", "o" >> >> },
      link_dest : { NoName, << "/", "l" >> } ]

InitSync ==
    /\ CoreAtRest
    /\ arg \in SyncArgs \cup [ fn : { "_escape" }, path : Tokens ]
    /\ out = NoOut
    /\ IOAtRest

\* sync.sync(target, includes, excludes, link_dest) until _exec is called
ApplySync ==
    /\ arg.fn = "sync"
    /\ ~out.done
    /\ out' = [ done |-> TRUE,
                command |-> sync(arg.self, arg.target, arg.includes,
                                 arg.excludes, arg.link_dest) ]
    /\ UNCHANGED << coreVars, root, arg, ioVars >>

\* sync._escape(path)
ApplyEscape ==
    /\ arg.fn = "_escape"
    /\ ~out.done
    /\ out' = [ done |-> TRUE, value |-> _escape(arg.path) ]
    /\ UNCHANGED << coreVars, root, arg, ioVars >>

NextSync == ApplySync \/ ApplyEscape

SpecSync == InitSync /\ [][NextSync]_vars

\* ======================================================= Config (config.py)
\* The Config singleton of the daemon process is heap[1]; arg.file is the
\* configuration file, a version number standing for what it holds under
\* every key; out.read is what each worker was given.  _template holds the
\* defaults (version 0) until a reload merges the file into it.
ConfigObject(user, template, combined, lock) ==
    [ _user |-> user, _template |-> template, _combined |-> combined,
      lock |-> lock ]

NothingRead == [ includes |-> NoCode, target |-> NoCode ]

InitConfig ==
    /\ now = 1
    /\ fs = [ e \in Entries |-> IF e \in Strays THEN Bare ELSE Absent ]
    /\ target = FALSE
    /\ Fresh(Workers)
    /\ root = TRUE
    /\ arg = [ fn |-> "Config", file |-> 1 ]
    /\ out = [ done |-> FALSE, read |-> [ t \in Workers |-> NothingRead ] ]
    /\ disk = [ p \in DiskNodes |-> NoNode ]
    /\ syscalls = << >>
    /\ instances = EmptyDict
    /\ heap = << ConfigObject(NoCode, [ target |-> 0, includes |-> 0 ],
                              "None", NoProc) >>

\* The user saves another configuration file.
EditFile ==
    /\ arg.file <= MaxEdits
    /\ arg' = [ arg EXCEPT !.file = @ + 1 ]
    /\ UNCHANGED << coreVars, root, out, ioVars >>

\* The steps of a worker leave everything but its pc, the Config object
\* and what it has read.
ConfigFrame ==
    UNCHANGED << now, fs, target, handle, op, dry, flags, link, cmdDry, rc,
                 status, result, rsyncVars, pre, root, arg, disk, syscalls,
                 instances >>

\* Daemon.backup, Daemon.restore: the thread starts with
\* config.Config.get().reload(): with Config.__lock: self._user = {}
ReloadEnter(t) ==
    /\ pc[t] = "idle"
    /\ heap[1].lock = NoProc
    /\ heap' = << [ heap[1] EXCEPT !.lock = t, !._user = 0 ] >>
    /\ pc' = [ pc EXCEPT ![t] = "c_load" ]
    /\ out' = [ out EXCEPT !.read[t] = NothingRead ]
    /\ ConfigFrame

\* with open(self._config_file, 'r') as f: self._user = YAML.load(f.read())
ReloadLoad(t) ==
    /\ pc[t] = "c_load"
    /\ heap' = << [ heap[1] EXCEPT !._user = arg.file ] >>
    /\ pc' = [ pc EXCEPT ![t] = "c_merge_target" ]
    /\ out' = out
    /\ ConfigFrame

\* utils.dict_merge(self._template, self._user): for k, v in new.items():
\* ... defaults[k] = new[k], key after key in the dict it was given
ReloadMerge(t, key, then) ==
    /\ pc[t] = "c_merge_" \o key
    /\ heap' = << [ heap[1] EXCEPT !._template[key] = heap[1]._user ] >>
    /\ pc' = [ pc EXCEPT ![t] = then ]
    /\ out' = out
    /\ ConfigFrame

\* return defaults; self._combined = <the template>; the lock is released
ReloadLeave(t) ==
    /\ pc[t] = "c_leave"
    /\ heap' = << [ heap[1] EXCEPT !._combined = "_template",
                                   !.lock = NoProc ] >>
    /\ pc' = [ pc EXCEPT ![t] = "rd_includes" ]
    /\ out' = out
    /\ ConfigFrame

\* helper.create_backup: cfg.get_includes(), then cfg.target:
\* self._combined[key], no lock taken
ConfigRead(t, key, then) ==
    /\ pc[t] = "rd_" \o key
    /\ heap[1]._combined = "_template"
    /\ out' = [ out EXCEPT !.read[t][key] = heap[1]._template[key] ]
    /\ pc' = [ pc EXCEPT ![t] = then ]
    /\ heap' = heap
    /\ ConfigFrame

\* The thread ends; the next request gets a thread of its own.
WorkerEnd(t) ==
    /\ pc[t] = "c_done"
    /\ pc' = [ pc EXCEPT ![t] = "idle" ]
    /\ UNCHANGED << out, heap >>
    /\ ConfigFrame

NextConfig ==
    \/ EditFile
    \/ \E t \in Workers : ReloadEnter(t)
    \/ \E t \in Workers : ReloadLoad(t)
    \/ \E t \in Workers : ReloadMerge(t, "target", "c_merge_includes")
    \/ \E t \in Workers : ReloadMerge(t, "includes", "c_leave")
    \/ \E t \in Workers : ReloadLeave(t)
    \/ \E t \in Workers : ConfigRead(t, "includes", "rd_target")
    \/ \E t \in Workers : ConfigRead(t, "target", "c_done")
    \/ \E t \in Workers : WorkerEnd(t)

SpecConfig == InitConfig /\ [][NextConfig]_vars

\* ================================================ dups remove (__main__.py)
\* bool(x) of an argument that is a list, a str or None: false if empty.
Truthy(x) == x # << >>

\* bool(x) of an optional int, << >> for None and << k >> for k: false for
\* None and for 0.
TruthyInt(x) == x \notin { << >>, << 0 >> }

\* The parsed command line of `dups remove`.
RemoveArgs ==
    [ fn : { "handle_remove" },
      backup : { << >>, << NameTable[1] >>, << NameTable[2], NameTable[1] >> },
      all_but_keep : { << >> } \cup { << k >> : k \in 0..MaxCount },
      older_than : { NoName, << "0", "d" >>, << "1", "d" >>, << "x" >> },
      invalid : BOOLEAN, yes : BOOLEAN, dry_run : BOOLEAN ]

\* The names helper.remove_invalid hands to remove_backups.
remove_invalid_names(f) == get_backups(f, FALSE, TRUE)

\* helper.remove_older_than(duration, dry_run): the target afterwards
remove_older_than(f, duration, dry_run) ==
    LET delta == duration_to_timedelta(duration) IN
    IF delta.raised = "ValueError" \/ delta.none THEN f
    ELSE remove_backups(f, remove_older_than_names(f, Clock - delta.seconds),
                        dry_run)

\* The branches of handle_remove after the prompt: the target afterwards.
Dispatch(f, args) ==
    IF Truthy(args.backup)
      THEN remove_backups(f, args.backup, args.dry_run)
    ELSE IF args.all_but_keep # << >>
      THEN remove_backups(f, remove_but_keep_names(f, args.all_but_keep[1]),
                          args.dry_run)
    ELSE IF Truthy(args.older_than)
      THEN remove_older_than(f, args.older_than, args.dry_run)
    ELSE IF args.invalid
      THEN remove_backups(f, remove_invalid_names(f), args.dry_run)
    ELSE f

\* `dups remove ...` runs handle_remove(args) once; answer is what the
\* user replies should utils.confirm(msg) ask.
HandleRemove(args, answer) ==
    /\ ~out.done
    /\ arg' = args
    /\ \E asks \in { /\ \/ Truthy(args.backup)
                        \/ TruthyInt(args.all_but_keep)
                        \/ Truthy(args.older_than)
                        \/ args.invalid
                     /\ ~args.yes } :
         /\ out' = [ done |-> TRUE, asked |-> asks,
                     confirmed |-> asks /\ answer ]
         /\ fs' = IF asks /\ ~answer THEN fs ELSE Dispatch(fs, args)
    /\ UNCHANGED << now, target, handle, pc, locals, result, rsyncVars, pre,
                    root, ioVars >>

NextRemove ==
    \E args \in RemoveArgs, answer \in BOOLEAN : HandleRemove(args, answer)

SpecRemove == InitPrune /\ [][NextRemove]_vars

\* ------------------------------------------------------------------ C11
\* A name in the fixed-width format YYYYMMDDHHMMSS: fourteen digits that
\* spell a date and a time of day.
IsTimestamp(e) ==
    /\ Len(e) = 14
    /\ AllDigits(e)
    /\ Num(SubSeq(e, 1, 4)) >= 1
    /\ Num(SubSeq(e, 5, 6)) \in 1..12
    /\ Num(SubSeq(e, 7, 8)) \in
         1..DaysIn(Num(SubSeq(e, 1, 4)), Num(SubSeq(e, 5, 6)))
    /\ Num(SubSeq(e, 9, 10)) \in 0..23
    /\ Num(SubSeq(e, 11, 12)) \in 0..59
    /\ Num(SubSeq(e, 13, 14)) \in 0..59

\* C11: all_backups never raises; what it returns (here with both flags
\* set, so that validity filters nothing) is exactly the entries of root_dir
\* whose name is a fixed-width YYYYMMDDHHMMSS timestamp, every other entry
\* being skipped; a missing root_dir yields the empty list.
C11_OnlyTimestampsAreListed ==
    \A t \in Threads :
      ( pc[t] = "done" /\ result[t].op = "all_backups" ) =>
        /\ result[t].kind = "returned"
        /\ \A e \in Range(result[t].val) : IsTimestamp(e)
        /\ ( flags[t] = << TRUE, TRUE >> /\ root ) =>
              Range(result[t].val) = { e \in listdir(fs) : IsTimestamp(e) }
        /\ ~root => result[t].val = << >>

\* ------------------------------------------------------------------ C12
\* The callers whose rsync subprocess is running: started by Popen and not
\* yet waited for.
InFlight == { t \in DOMAIN pc : pc[t] = "s_run" }

\* C12: the rsync invoker never has more than one subprocess in flight,
\* whatever the interleaving of the callers that share it.
C12_OneSubprocessInFlight == Cardinality(InFlight) <= 1

\* ------------------------------------------------------------------ C13
\* C13: a Status held by a caller of rsync.sync was made after the caller's
\* own subprocess exited (its return code is set) and carries that return
\* code.
C13_StatusIsOwnExitCode ==
    \A t \in DOMAIN pc :
      status[t] # NoCode => ( rc[t] # NoCode /\ status[t] = rc[t] )

\* ------------------------------------------------------------------ C14
\* The codes rsync documents, as the claim's table.
KnownCodes ==
    { 0, 1, 2, 3, 4, 5, 6, 10, 11, 12, 13, 14, 20, 21, 22, 23, 24, 25, 30,
      35, 255 }

\* C14: Status(code) raises ValueError and yields no object for every code
\* outside the table; for every code in the table it yields a Status with
\* that exit code whose is_complete is true exactly for 0, 23 and 24.
C14_StatusKnowsItsTable ==
    out.done =>
      IF arg.code \in KnownCodes
        THEN /\ out.raised = ""
             /\ out.exit_code = arg.code
             /\ out.is_complete <=> arg.code \in {0, 23, 24}
        ELSE /\ out.raised = "ValueError"
             /\ DOMAIN out = { "done", "raised" }

C14_Witness ==
    /\ out.done
    /\ arg.code = 25
    /\ out.raised = ""
    /\ ~out.is_complete

\* ------------------------------------------------------------------ C15
\* The backups of a root: its entries named by a timestamp.
BackupsOf(f) == { n \in DOMAIN f : f[n].exists /\ IsTimestamp(n) }

\* The k greatest names of a set of names.
GreatestNames(S, k) ==
    { n \in S : Cardinality({ m \in S : StrLess(n, m) }) < k }

\* C15: remove_but_keep(N) removes exactly the backups, valid or not, that
\* are not among the N greatest names (all of them for N = 0, none when
\* there are at most N) and touches nothing else; a dry run removes none.
C15_KeepsTheGreatestNames ==
    \A t \in Threads :
      Ended(t, "remove_but_keep", "returned") =>
        LET was  == pre[t].fs
            kept == IF result[t].dry THEN BackupsOf(was)
                    ELSE GreatestNames(BackupsOf(was), arg.keep)
        IN  /\ BackupsOf(fs) = kept
            /\ \A e \in DOMAIN was :
                 e \notin BackupsOf(was) \ kept => fs[e] = was[e]
            /\ arg.keep = 0 /\ ~result[t].dry => BackupsOf(fs) = {}
            /\ Cardinality(BackupsOf(was)) <= arg.keep => fs = was

C15_Witness ==
    \E t \in Threads :
      /\ Ended(t, "remove_but_keep", "returned")
      /\ ~result[t].dry
      /\ arg.keep = 1
      /\ Cardinality(BackupsOf(pre[t].fs)) = 3
      /\ \E n \in BackupsOf(pre[t].fs) :
           ~is_valid(pre[t].fs, n) /\ ~Exists(fs, n)
      /\ BackupsOf(fs) = { NameTable[3] }

\* ------------------------------------------------------------------ C16
\* Seconds in each unit of a duration token.
UnitSeconds ==
    [ s |-> 1, m |-> 60, h |-> 3600, d |-> 86400, w |-> 604800 ]

\* C16: for a duration of a units u, remove_older_than returns normally and
\* has removed exactly the backups whose timestamp is at or before now minus
\* the duration, keeping every more recent backup and every other entry as
\* it was; a dry run removes none.
C16_RemovesAtOrBeforeCutoff ==
    \A t \in Threads :
      ( pc[t] = "done" /\ result[t].op = "remove_older_than" ) =>
        \A u \in Units : \A a \in Amounts[u] :
          arg.duration = Spell(a) \o << u >> =>
            LET was    == pre[t].fs
                cutoff == Clock - a * UnitSeconds[u]
                kept   == IF result[t].dry THEN BackupsOf(was)
                          ELSE { n \in BackupsOf(was) : Stamp(n) > cutoff }
            IN  /\ result[t].kind = "returned"
                /\ result[t].exc = ""
                /\ BackupsOf(fs) = kept
                /\ \A e \in DOMAIN was :
                     e \notin BackupsOf(was) \ kept => fs[e] = was[e]

C16_Witness ==
    \E t \in Threads :
      /\ Ended(t, "remove_older_than", "returned")
      /\ ~result[t].dry
      /\ now = 3
      /\ arg.duration = << "4", "8", "h" >>
      /\ BackupsOf(pre[t].fs) = StoredNames
      /\ BackupsOf(fs) = { NameTable[2], NameTable[3] }

\* ------------------------------------------------------------------ C17
\* C17: for a malformed duration token remove_older_than fails with the
\* invalid-duration error and removes no backup.
C17_MalformedIsInvalidDuration ==
    \A t \in Threads :
      ( pc[t] = "done" /\ result[t].op = "remove_older_than" ) =>
        ( arg.duration \in Malformed =>
            /\ result[t].exc = "Invalid duration specified."
            /\ fs = pre[t].fs )


\* ------------------------------------------------------------------ C18
\* The tiers of rotate_gffs in the order of its result.
GffsTiers == << "d", "w", "m", "y" >>

\* C18: for the backups of a root and any counts, the set kept by
\* rotate_gffs is a subset of the input with at most one entry per calendar
\* day, week, month and year of the respective tier and at most
\* days + weeks + months + years entries, no date is kept by two tiers, and
\* remove_gffs removes exactly the backups it was given (those get_backups
\* lists) whose date is not kept, none on a dry run, and touches nothing
\* else.
C18_GffsRemovesAllButKept ==
    \A t \in Threads :
      pc[t] = "done" /\ result[t].op = "remove_gffs" =>
        LET was == pre[t].fs
            input == backup_dates(was)
            r == rotate_gffs(input, arg.days, arg.weeks, arg.months,
                             arg.years, arg.weekday_full)
            kept == Range(r[5])
        IN  /\ kept \subseteq Range(input)
            /\ kept = UNION { Range(r[i]) : i \in 1..4 }
            /\ \A i \in 1..4 : \A a, b \in Range(r[i]) :
                  TierStart(GffsTiers[i], a) = TierStart(GffsTiers[i], b)
                    => a = b
            /\ Cardinality(kept)
                  <= arg.days + arg.weeks + arg.months + arg.years
            /\ \A i, j \in 1..4 :
                  i # j => Range(r[i]) \cap Range(r[j]) = {}
            /\ result[t].dry => fs = was
            /\ ~result[t].dry =>
                  \A n \in DOMAIN was :
                    fs[n] = IF n \in Range(get_backups(was, TRUE, TRUE))
                               /\ strptime_memo[n] \notin kept
                              THEN Absent ELSE was[n]


\* ------------------------------------------------------------------ C19
\* The path-taking operations of IO.
PathOperations == OnePath \cup { "symlink" }

\* C19: every path-taking operation of a local or a remote IO that is called
\* with a path that is not absolute raises ValueError, makes no os, SFTP or
\* SSH call and leaves the tree as it was.
C19_NonAbsolutePathIsRefused ==
    [][ ( /\ out'.done
          /\ arg'.fn \in PathOperations
          /\ \E i \in 1..Len(arg'.args) : ~isabs(arg'.args[i]) )
        => ( /\ out'.raised = "ValueError"
             /\ syscalls' = << >>
             /\ disk' = disk ) ]_vars

\* rrmdir('a') on a remote IO whose target holds the directory /a was
\* refused, and so was symlink('/b', 'a').
C19_Witness ==
    /\ out.done
    /\ out.raised = "ValueError"
    /\ arg.remote
    /\ disk[<< "/", "a" >>].kind = "dir"
    /\ \/ arg.fn = "rrmdir" /\ arg.args = << << "a" >> >>
       \/ arg.fn = "symlink" /\ arg.args = << << "/", "b" >>, << "a" >> >>


\* ------------------------------------------------------------------ C20
\* C20: IO.get hands out the same instance exactly for equal parameters:
\* the instance a call returns was constructed with the parameters of that
\* call, no two instances were constructed with the same parameters, and
\* every remote instance has a session of its own.
C20_OneInstancePerParameters ==
    /\ ( out.done /\ arg.fn = "IO.get" /\ out.raised = "" ) =>
          heap[out.instance].params = arg.params
    /\ \A i, j \in 1..Len(heap) :
          i # j => /\ heap[i].params # heap[j].params
                   /\ ~is_local(heap[i].params)
                        => heap[i].session # heap[j].session
    /\ \A i \in 1..Len(heap) :
          ~is_local(heap[i].params) => heap[i].session # 0

\* C21: on a remote IO, exists, isfile and isdir of a missing path return
\* False without raising, and a request that fails for any other reason
\* (permission denied, connection lost) raises its error to the caller
\* instead of returning True or False.
C21_RemoteErrorsPropagate ==
    ( /\ out.done
      /\ arg.fn \in { "exists", "isfile", "isdir" }
      /\ arg.remote
      /\ isabs(arg.args[1]) )
    => /\ (arg.fault = "" /\ StatKind(disk, arg.args[1]) = "none")
            => (out.raised = "" /\ out.value = Bool(FALSE))
       /\ arg.fault # "" => out.raised = arg.fault

\* ------------------------------------------------------------------ C22
\* The requests that hold a transfer invoker: from sync = rsync.rsync.get()
\* until sync.sync(...) has returned its Status.
UsesSync(t) ==
    pc[t] \in { "b_mkdir", "b_started", "b_latest", "s_cmd", "s_exec",
                "s_popen", "s_run", "s_status" }

\* C22: each daemon worker uses a transfer invoker of its own: while a
\* request holds its invoker, no step of another request changes the
\* dry_run flag, the running-process slot or the recorded exit code it
\* works with.
C22_OwnInvokerPerWorker ==
    [][ \A t \in DOMAIN pc :
          (UsesSync(t) /\ pc'[t] = pc[t]) => UNCHANGED rsyncVars ]_vars

\* ------------------------------------------------------------------ C23
\* C23: in every interleaving of daemon requests, a backup its request has
\* just marked valid was transferred by a command built without
\* '--dry-run'.
C23_ValidBackupWasTransferred ==
    \A t \in DOMAIN pc :
      ( /\ op[t] = "backup"
        /\ pc[t] = "b_return"
        /\ ~dry[t]
        /\ status[t] = 0
        /\ is_valid(fs, handle[t]) )
      => ~cmdDry[t]

\* ------------------------------------------------------------------ C24
\* C24: when a call of rsync.sync has ended, by its return or by an
\* exception raised while the output was streamed or the Status was made,
\* the invoker is idle again: _proc is cleared.
C24_SyncEndsIdle ==
    \A t \in DOMAIN pc :
      (pc[t] = "done" /\ result[t].at \in { "s_run", "s_status" })
      => rs_proc = NoProc

\* ------------------------------------------------------------------ C25
\* C25: Backup.all_backups and Backup.latest never raise
\* BackupNotFoundException, also when another actor removes a listed
\* backup between the directory listing and the existence check of
\* from_name.
C25_ListingNeverRaisesNotFound ==
    (arg.fn \in Listers /\ out.done)
    => out.raised # "BackupNotFoundException"

BinaryAt(command) ==
    CHOOSE i \in 1..Len(command) : command[i] = Lit("/usr/bin/rsync")

\* C27: when dry_run is set, '--dry-run' is the token right after the rsync
\* binary in the command rsync.sync hands to execution, for a local and a
\* remote destination alike.
C27_DryRunFollowsBinary ==
    (arg.fn = "sync" /\ out.done /\ arg.self.dry_run)
    => out.command[BinaryAt(out.command) + 1] = Lit("--dry-run")

\* ------------------------------------------------------------------ C28
\* The characters the claim lists as left unchanged.
KeptAsClaimed == Unescaped \cup { "\\" }

\* A str with every character outside the list prefixed with a backslash.
RECURSIVE EscapedAsClaimed(_)
EscapedAsClaimed(path) ==
    IF path = << >> THEN << >>
    ELSE (IF Head(path) \in KeptAsClaimed THEN << Head(path) >>
          ELSE << "\\", Head(path) >>) \o EscapedAsClaimed(Tail(path))

\* C28: _escape leaves every alphanumeric character and each of
\* , . _ + : @ % / - * and the backslash unchanged and prefixes every other
\* character with exactly one backslash; a token made only of '*' and the
\* already escaped pattern of the test come back unchanged.
C28_EscapeKeepsTheListedCharacters ==
    (arg.fn = "_escape" /\ out.done) =>
      /\ arg.path # EscapedPattern
           => out.value = EscapedAsClaimed(arg.path)
      /\ (arg.path = EscapedPattern \/ Range(arg.path) = { "*" })
           => out.value = arg.path

\* ------------------------------------------------------------------ C29
\* Worker t reads a key of the configuration in this step.
ReadsConfig(t) ==
    pc[t] \in { "rd_includes", "rd_target" } /\ pc'[t] # pc[t]

\* C29: a reload excludes the configuration reads of the worker threads:
\* no worker reads a key while another thread is inside Config.reload, and
\* what it reads is never a configuration that is reloaded in part.
C29_ReloadExcludesReads ==
    [][ \A t \in DOMAIN pc :
          ReadsConfig(t) =>
            /\ heap[1].lock = NoProc
            /\ heap[1]._template.target = heap[1]._template.includes ]_vars

\* ------------------------------------------------------------------ C30
\* C30: handle_remove removes backups only after the user has confirmed
\* the prompt or passed --yes, whatever selects the backups: names,
\* --all-but-keep (0 included), --older-than or --invalid.
C30_RemovalIsConfirmed ==
    [][ fs' # fs => (arg'.yes \/ out'.confirmed) ]_vars

====
